-------------------------- MODULE LeadershipProofs --------------------------
(***************************************************************************)
(* Proofs about Leadership, and about the passes of GuardedPasses, for any *)
(* number of Pods, any clock bound and any durations that keep the reserve *)
(* larger than the API timeout, and the renew deadline within the Lease.   *)
(*                                                                         *)
(* The argument is about one number, written: when the stored version of   *)
(* the Lease was written.  The holder's gate and requests end within a     *)
(* Lease duration of it, everybody else's ended before it, and whoever may *)
(* still take the Lease away sent its patch a Lease duration after it.     *)
(* A process that lost the Lease has stopped trying by then, so its pass   *)
(* cannot meet a gate of its own again (GuardedInv).                       *)
(***************************************************************************)
EXTENDS GuardedPasses, TLAPS

\* The Lease has a holder from its creation on, and is not written ahead of time.
LeaseInv ==
    /\ written <= now
    /\ lease.version = 0 => lease.holder = None /\ written = 0

\* A patch under way that would still be accepted comes from the holder, or was
\* sent a Lease duration after the record it replaces was written.
PatchInv ==
    \A m \in patches :
        /\ m.started <= now /\ m.version <= lease.version
        /\ (m.version = lease.version /\ lease.holder \notin {None, m.pod})
             => written + LeaseDuration <= m.started

\* What an elector saw is a stored version, and it did not see it before it was
\* written; its next patch names that version.
SeenInv ==
    \A p \in Pods :
        /\ lock[p] = seen[p].version /\ seen[p].version <= lease.version
        /\ seen[p].version = lease.version
             => seen[p].holder = lease.holder /\ written <= seen[p].at

\* A call that was answered "ok" opens the gate for no longer than the Pod holds
\* the Lease, even when the Pod learns of it late.
CallInv ==
    \A p \in Pods :
        /\ call[p].started <= now
        /\ call[p].result = "ok" =>
             /\ call[p].version + 1 <= lease.version
             /\ call[p].version + 1 = lease.version => lease.holder = p
             /\ IF lease.holder = p THEN call[p].started <= written
                ELSE call[p].started + WriteWindow <= written

GateInv ==
    \A p \in Pods :
        gate[p] <= IF lease.holder = p THEN written + WriteWindow ELSE written

\* A request ends at the latest an API timeout after the gate it was checked at.
WriteInv ==
    \A p \in Pods :
        /\ write[p].limit <= IF lease.holder = p THEN written + WriteWindow + Timeout
                             ELSE written
        /\ write[p].stage = "sent" => now < write[p].limit

IInv ==
    TypeOK /\ LeaseInv /\ PatchInv /\ SeenInv /\ CallInv /\ GateInv /\ WriteInv

-----------------------------------------------------------------------------
(* The types of the records, for the provers.                              *)
USE TimeAssumption, ReserveAssumption, PodAssumption

LEMMA InitIInv == Init => IInv
  BY DEF Init, IInv, TypeOK, LeaseInv, PatchInv, SeenInv, CallInv, GateInv, WriteInv,
         Unseen, NoCall, NoWrite, Patches

\* Send adds one patch, sent now, and starts one call.  It keeps what the
\* invariant says of both when the version it names may be replaced by its Pod.
LEMMA SendKeeps ==
  ASSUME IInv, NEW p \in Pods, NEW v \in Nat, Send(p, v), v <= lease.version,
         (v = lease.version /\ lease.holder \notin {None, p}) => written + LeaseDuration <= now,
         UNCHANGED <<now, lease, written>>
  PROVE  /\ patches' \subseteq Patches /\ PatchInv'
         /\ call' \in [Pods -> [result : {"none", "pending", "ok", "conflict"},
                                version : Nat, started : Nat]]
         /\ CallInv'
  <1> DEFINE m == [pod |-> p, version |-> v, started |-> now]
  <1>0. TypeOK /\ LeaseInv /\ PatchInv /\ CallInv
    BY DEF IInv
  <1>1. patches' = patches \cup {m} /\ m \in Patches
    BY <1>0 DEF Send, TypeOK, Patches
  <1>2. patches' \subseteq Patches
    BY <1>0, <1>1 DEF TypeOK
  <1>3. PatchInv'
    BY <1>0, <1>1 DEF PatchInv, TypeOK
  <1>4. call' \in [Pods -> [result : {"none", "pending", "ok", "conflict"},
                           version : Nat, started : Nat]]
    BY <1>0 DEF Send, TypeOK
  <1>5. CallInv'
    BY <1>0 DEF Send, CallInv, TypeOK
  <1> QED
    BY <1>2, <1>3, <1>4, <1>5

LEMMA RenewKeeps == ASSUME IInv, NEW p \in Pods, Renew(p) PROVE IInv'
  <1>1. /\ lock[p] \in Nat /\ lock[p] <= lease.version
        /\ lock[p] = lease.version => lease.holder = p
    BY DEF IInv, TypeOK, SeenInv, Renew
  <1>2. /\ patches' \subseteq Patches /\ PatchInv' /\ CallInv'
        /\ call' \in [Pods -> [result : {"none", "pending", "ok", "conflict"},
                               version : Nat, started : Nat]]
    BY <1>1, SendKeeps DEF Renew
  <1> QED
    BY <1>2 DEF IInv, TypeOK, LeaseInv, SeenInv, GateInv, WriteInv, Renew

LEMMA AttemptKeeps == ASSUME IInv, NEW p \in Pods, Attempt(p) PROVE IInv'
  <1> DEFINE record == IF seen[p].version = lease.version THEN seen[p]
                       ELSE [holder |-> lease.holder, version |-> lease.version, at |-> now]
  <1>0. TypeOK /\ LeaseInv /\ PatchInv /\ SeenInv /\ CallInv /\ GateInv /\ WriteInv
    BY DEF IInv
  <1>1. /\ record \in [holder : Pods \cup {None}, version : Nat, at : Nat]
        /\ record.version = lease.version /\ record.holder = lease.holder
        /\ written <= record.at
    BY <1>0 DEF TypeOK, SeenInv, LeaseInv
  <1>2. /\ seen' = [seen EXCEPT ![p] = record]
        /\ lock' = [lock EXCEPT ![p] = lease.version]
        /\ UNCHANGED <<now, lease, written, write>>
    BY DEF Attempt
  <1>3. /\ patches' \subseteq Patches /\ PatchInv' /\ CallInv'
        /\ call' \in [Pods -> [result : {"none", "pending", "ok", "conflict"},
                               version : Nat, started : Nat]]
    <2>1. CASE lease.holder \in {None, p} \/ Expired(record)
      <3>1. Send(p, lease.version)
        BY <2>1 DEF Attempt
      <3>2. (lease.holder \notin {None, p}) => written + LeaseDuration <= now
        BY <2>1, <1>0, <1>1 DEF Expired, TypeOK
      <3> QED
        BY <1>0, <1>2, <3>1, <3>2, SendKeeps DEF TypeOK
    <2>2. CASE ~(lease.holder \in {None, p} \/ Expired(record))
      <3>1. UNCHANGED <<call, patches>>
        BY <2>2 DEF Attempt
      <3> QED
        BY <3>1, <1>0, <1>2 DEF TypeOK, PatchInv, CallInv
    <2> QED
      BY <2>1, <2>2
  <1>4. SeenInv'
    BY <1>0, <1>1, <1>2 DEF SeenInv, TypeOK
  <1>5. gate' \in [Pods -> Nat] /\ GateInv'
    <2>1. gate' = gate \/ gate' = [gate EXCEPT ![p] = 0]
      BY DEF Attempt, Revoke
    <2>2. gate' \in [Pods -> Nat]
      BY <2>1, <1>0 DEF TypeOK
    <2>3. \A q \in Pods : gate'[q] = gate[q] \/ gate'[q] = 0
      BY <2>1, <1>0 DEF TypeOK
    <2>4. lease \in [holder : Pods \cup {None}, version : Nat] /\ written \in Nat
      BY <1>0 DEF TypeOK
    <2> QED
      BY <1>0, <1>2, <2>2, <2>3, <2>4 DEF GateInv
  <1>6. LeaseInv' /\ WriteInv'
    BY <1>0, <1>2 DEF LeaseInv, WriteInv
  <1>7. TypeOK'
    BY <1>0, <1>1, <1>2, <1>3, <1>5 DEF TypeOK
  <1> QED
    BY <1>3, <1>4, <1>5, <1>6, <1>7 DEF IInv

\* A patch that is applied takes the Lease from its holder only when the
\* holder's gate and requests have ended.
LEMMA ReceiveKeeps == ASSUME IInv, NEW m \in patches, Receive(m) PROVE IInv'
  <1>0. TypeOK /\ LeaseInv /\ PatchInv /\ SeenInv /\ CallInv /\ GateInv /\ WriteInv
    BY DEF IInv
  <1>1. m \in Patches /\ m.pod \in Pods /\ m.version \in Nat /\ m.started \in Nat
    BY <1>0 DEF TypeOK, Patches
  <1>2. patches' = patches \ {m} /\ UNCHANGED <<now, seen, lock, gate, write>>
    BY DEF Receive
  <1>3. call' \in [Pods -> [result : {"none", "pending", "ok", "conflict"},
                           version : Nat, started : Nat]]
    <2>1. CASE Waits(m)
      <3> DEFINE r == IF VersionHolds(m) THEN "ok" ELSE "conflict"
      <3>1. call' = [call EXCEPT ![m.pod].result = r] /\ r \in {"ok", "conflict"}
        BY <2>1 DEF Receive
      <3> HIDE DEF r
      <3>2. call[m.pod] \in [result : {"none", "pending", "ok", "conflict"},
                            version : Nat, started : Nat]
        BY <1>0, <1>1 DEF TypeOK
      <3>3. [call[m.pod] EXCEPT !.result = r]
              \in [result : {"none", "pending", "ok", "conflict"}, version : Nat, started : Nat]
        BY <3>1, <3>2
      <3> QED
        BY <3>1, <3>3, <1>0, <1>1 DEF TypeOK
    <2>2. CASE ~Waits(m)
      BY <2>2, <1>0 DEF Receive, TypeOK
    <2> QED
      BY <2>1, <2>2
  <1>4. CASE VersionHolds(m)
    <2>1. /\ lease' = [holder |-> m.pod, version |-> lease.version + 1]
          /\ written' = now /\ m.version = lease.version
      BY <1>4 DEF Receive, VersionHolds
    <2>2. lease.holder \notin {None, m.pod} => written + LeaseDuration <= now
      BY <1>0, <1>1, <2>1 DEF PatchInv, TypeOK
    <2>3. TypeOK'
      BY <1>0, <1>1, <1>2, <1>3, <2>1 DEF TypeOK
    <2>4. LeaseInv' /\ PatchInv' /\ SeenInv'
      BY <1>0, <1>2, <2>1 DEF LeaseInv, PatchInv, SeenInv, TypeOK, Patches
    <2>5. CallInv'
      <3> SUFFICES ASSUME NEW p \in Pods
                   PROVE  /\ call'[p].started <= now
                          /\ call'[p].result = "ok" =>
                               /\ call'[p].version + 1 <= lease'.version
                               /\ call'[p].version + 1 = lease'.version => lease'.holder = p
                               /\ IF lease'.holder = p THEN call'[p].started <= now
                                  ELSE call'[p].started + WriteWindow <= now
        BY <1>2, <2>1 DEF CallInv
      <3>1. CASE p = m.pod /\ Waits(m)
        <4>1. call'[p] = [call[p] EXCEPT !.result = "ok"]
          BY <3>1, <1>4, <1>0, <1>1 DEF Receive, TypeOK
        <4>2. call[p].version = m.version /\ call[p].started <= now
          BY <3>1, <1>0 DEF Waits, CallInv
        <4>3. call'[p].version = m.version /\ call'[p].started = call[p].started
          BY <4>1, <4>2, <1>0 DEF TypeOK
        <4> QED
          BY <3>1, <4>2, <4>3, <2>1, <1>0, <1>1 DEF TypeOK
      <3>2. CASE ~(p = m.pod /\ Waits(m))
        <4>1. call'[p] = call[p]
          BY <3>2, <1>0, <1>1 DEF Receive, TypeOK
        <4>2. call[p].started \in Nat /\ call[p].version \in Nat
          BY <1>0 DEF TypeOK
        <4>3. call[p].result = "ok" => call[p].version + 1 <= lease.version
          BY <1>0 DEF CallInv
        <4>4. (call[p].result = "ok" /\ m.pod # p) => call[p].started + WriteWindow <= now
          <5> SUFFICES ASSUME call[p].result = "ok", m.pod # p
                       PROVE  call[p].started + WriteWindow <= now
            OBVIOUS
          <5>1. CASE lease.holder = p
            BY <5>1, <2>2, <4>2, <1>0 DEF CallInv, TypeOK
          <5>2. CASE lease.holder # p
            BY <5>2, <4>2, <1>0 DEF CallInv, TypeOK, LeaseInv
          <5> QED
            BY <5>1, <5>2
        <4> QED
          BY <4>1, <4>2, <4>3, <4>4, <2>1, <1>0 DEF CallInv, TypeOK
      <3> QED
        BY <3>1, <3>2
    <2>6. GateInv'
      <3> SUFFICES ASSUME NEW p \in Pods
                   PROVE  gate[p] <= IF m.pod = p THEN now + WriteWindow ELSE now
        BY <1>2, <2>1 DEF GateInv
      <3>1. gate[p] \in Nat /\ written \in Nat /\ now \in Nat
        BY <1>0 DEF TypeOK
      <3> QED
        BY <3>1, <2>2, <1>0 DEF GateInv, LeaseInv
    <2>7. WriteInv'
      <3> SUFFICES ASSUME NEW p \in Pods
                   PROVE  write[p].limit <= IF m.pod = p THEN now + WriteWindow + Timeout
                                            ELSE now
        BY <1>0, <1>2, <2>1 DEF WriteInv
      <3>1. write[p].limit \in Nat /\ written \in Nat /\ now \in Nat
        BY <1>0 DEF TypeOK
      <3> QED
        BY <3>1, <2>2, <1>0 DEF WriteInv, LeaseInv
    <2> QED
      BY <2>3, <2>4, <2>5, <2>6, <2>7 DEF IInv
  <1>5. CASE ~VersionHolds(m)
    <2>1. UNCHANGED <<lease, written>>
      BY <1>5 DEF Receive
    <2>2. \A p \in Pods : call'[p].started = call[p].started
                         /\ (call'[p].result = "ok" => call'[p] = call[p])
      BY <1>5, <1>0, <1>1 DEF Receive, TypeOK
    <2>3. TypeOK'
      BY <1>0, <1>2, <1>3, <2>1 DEF TypeOK
    <2>4. CallInv'
      BY <1>0, <1>2, <2>1, <2>2 DEF CallInv
    <2> QED
      BY <1>0, <1>2, <2>1, <2>3, <2>4
      DEF IInv, LeaseInv, PatchInv, SeenInv, GateInv, WriteInv
  <1> QED
    BY <1>4, <1>5

LEMMA FinishKeeps == ASSUME IInv, NEW p \in Pods, Finish(p) PROVE IInv'
  <1>0. TypeOK /\ LeaseInv /\ PatchInv /\ SeenInv /\ CallInv /\ GateInv /\ WriteInv
    BY DEF IInv
  <1>1. call' = [call EXCEPT ![p] = NoCall]
        /\ UNCHANGED <<now, lease, written, patches, write>>
    BY DEF Finish
  <1>2. call[p].version \in Nat /\ call[p].started \in Nat /\ written \in Nat /\ now \in Nat
    BY <1>0 DEF TypeOK
  <1>3. CallInv'
    BY <1>0, <1>1 DEF CallInv, NoCall, TypeOK
  <1>4. LeaseInv' /\ PatchInv' /\ WriteInv'
    BY <1>0, <1>1 DEF LeaseInv, PatchInv, WriteInv
  <1>5. CASE call[p].result = "ok"
    <2>1. /\ gate' = [gate EXCEPT ![p] = call[p].started + WriteWindow]
          /\ lock' = [lock EXCEPT ![p] = call[p].version + 1]
          /\ seen' = [seen EXCEPT ![p] =
                         [holder |-> p, version |-> call[p].version + 1, at |-> now]]
      BY <1>5 DEF Finish, renew, FinishStart
    <2>2. TypeOK'
      BY <1>0, <1>1, <1>2, <2>1 DEF TypeOK, NoCall
    <2>3. SeenInv'
      BY <1>0, <1>1, <1>2, <1>5, <2>1 DEF SeenInv, CallInv, LeaseInv, TypeOK
    <2>4. GateInv'
      <3>1. call[p].started + WriteWindow <=
              IF lease.holder = p THEN written + WriteWindow ELSE written
        BY <1>0, <1>2, <1>5 DEF CallInv
      <3> QED
        BY <3>1, <1>0, <1>1, <2>1 DEF GateInv, TypeOK
    <2> QED
      BY <1>3, <1>4, <2>2, <2>3, <2>4 DEF IInv
  <1>6. CASE call[p].result # "ok"
    <2>1. gate' = [gate EXCEPT ![p] = 0] /\ UNCHANGED <<lock, seen>>
      BY <1>6 DEF Finish, Revoke
    <2>2. TypeOK'
      BY <1>0, <1>1, <2>1 DEF TypeOK, NoCall
    <2>3. SeenInv' /\ GateInv'
      BY <1>0, <1>1, <1>2, <2>1 DEF SeenInv, GateInv, TypeOK
    <2> QED
      BY <1>3, <1>4, <2>2, <2>3 DEF IInv
  <1> QED
    BY <1>5, <1>6

\* The actions that only close a gate, forget or give up.
LEMMA LossKeeps ==
  ASSUME IInv, NEW p \in Pods, GetFails(p) \/ GiveUp(p) \/ Restart(p) \/ Return(p)
  PROVE  IInv'
  <1>0. TypeOK /\ LeaseInv /\ PatchInv /\ SeenInv /\ CallInv /\ GateInv /\ WriteInv
    BY DEF IInv
  <1>1. UNCHANGED <<now, lease, written, patches>>
    BY DEF GetFails, GiveUp, Restart, Return, electorVars
  <1>2. /\ \/ call' = call \/ call' = [call EXCEPT ![p] = NoCall]
        /\ \/ gate' = gate \/ gate' = [gate EXCEPT ![p] = 0]
        /\ \/ write' = write \/ write' = [write EXCEPT ![p] = NoWrite]
        /\ \/ seen' = seen /\ lock' = lock
           \/ seen' = [seen EXCEPT ![p] = Unseen] /\ lock' = [lock EXCEPT ![p] = 0]
    BY DEF GetFails, GiveUp, Restart, Return, Revoke, electorVars
  <1>3. TypeOK'
    <2>1. call' \in [Pods -> [result : {"none", "pending", "ok", "conflict"},
                             version : Nat, started : Nat]]
      BY <1>0, <1>2 DEF TypeOK, NoCall
    <2>2. gate' \in [Pods -> Nat]
      BY <1>0, <1>2 DEF TypeOK
    <2>5. lock' \in [Pods -> Nat]
      BY <1>0, <1>2 DEF TypeOK
    <2>6. Unseen \in [holder : Pods \cup {None}, version : Nat, at : Nat]
      BY DEF Unseen
    <2>3. seen' \in [Pods -> [holder : Pods \cup {None}, version : Nat, at : Nat]]
      BY <1>0, <1>2, <2>6 DEF TypeOK
    <2>4. write' \in [Pods -> [stage : {"none", "checked", "sent"}, limit : Nat, left : Nat]]
      BY <1>0, <1>2 DEF TypeOK, NoWrite
    <2> QED
      BY <1>0, <1>1, <2>1, <2>2, <2>3, <2>4, <2>5 DEF TypeOK
  <1>4. LeaseInv' /\ PatchInv'
    BY <1>0, <1>1 DEF LeaseInv, PatchInv
  <1>5. SeenInv'
    <2>1. \A q \in Pods : \/ seen'[q] = seen[q] /\ lock'[q] = lock[q]
                          \/ seen'[q] = Unseen /\ lock'[q] = 0
      BY <1>0, <1>2 DEF TypeOK
    <2>2. lease.version \in Nat /\ written \in Nat
      BY <1>0 DEF TypeOK
    <2> QED
      BY <1>0, <1>1, <2>1, <2>2 DEF SeenInv, Unseen, LeaseInv
  <1>6. CallInv'
    <2>1. \A q \in Pods : call'[q] = call[q] \/ call'[q] = NoCall
      BY <1>0, <1>2 DEF TypeOK
    <2>2. now \in Nat
      BY <1>0 DEF TypeOK
    <2> QED
      BY <1>0, <1>1, <2>1, <2>2 DEF CallInv, NoCall
  <1>7. GateInv'
    <2> SUFFICES ASSUME NEW q \in Pods
                 PROVE  gate'[q] <= IF lease.holder = q THEN written + WriteWindow ELSE written
      BY <1>1 DEF GateInv
    <2>1. gate'[q] = gate[q] \/ gate'[q] = 0
      BY <1>0, <1>2 DEF TypeOK
    <2>2. gate[q] <= IF lease.holder = q THEN written + WriteWindow ELSE written
      BY <1>0 DEF GateInv
    <2>3. written \in Nat
      BY <1>0 DEF TypeOK
    <2> QED
      BY <2>1, <2>2, <2>3
  <1>8. WriteInv'
    <2> SUFFICES ASSUME NEW q \in Pods
                 PROVE  /\ write'[q].limit <= IF lease.holder = q
                                               THEN written + WriteWindow + Timeout ELSE written
                        /\ write'[q].stage = "sent" => now < write'[q].limit
      BY <1>1 DEF WriteInv
    <2>1. write'[q] = write[q] \/ write'[q] = NoWrite
      BY <1>0, <1>2 DEF TypeOK
    <2>2. /\ write[q].limit <= IF lease.holder = q
                               THEN written + WriteWindow + Timeout ELSE written
          /\ write[q].stage = "sent" => now < write[q].limit
      BY <1>0 DEF WriteInv
    <2>3. written \in Nat
      BY <1>0 DEF TypeOK
    <2> QED
      BY <2>1, <2>2, <2>3 DEF NoWrite
  <1> QED
    BY <1>3, <1>4, <1>5, <1>6, <1>7, <1>8 DEF IInv

\* Only the holder's gate is open.
LEMMA OpenHolds == ASSUME IInv, NEW p \in Pods, Open(p) PROVE lease.holder = p
  BY DEF IInv, TypeOK, LeaseInv, GateInv, Open, remaining

LEMMA CheckKeeps == ASSUME IInv, NEW p \in Pods, Check(p) PROVE IInv'
  <1>0. TypeOK /\ LeaseInv /\ PatchInv /\ SeenInv /\ CallInv /\ GateInv /\ WriteInv
    BY DEF IInv
  <1>1. /\ write' = [write EXCEPT ![p] =
                       [stage |-> "checked", limit |-> now + Timeout, left |-> gate[p] - now]]
        /\ UNCHANGED <<now, lease, written, patches, seen, lock, call, gate>>
    BY DEF Check, remaining, electorVars
  <1>2. now < gate[p] /\ lease.holder = p
    BY <1>0, OpenHolds DEF Check, MayWrite, Open, remaining, TypeOK
  <1>3. now + Timeout <= written + WriteWindow + Timeout
    BY <1>0, <1>2 DEF GateInv, TypeOK
  <1>4. TypeOK'
    BY <1>0, <1>1, <1>2 DEF TypeOK
  <1>5. WriteInv'
    BY <1>0, <1>1, <1>2, <1>3 DEF WriteInv, TypeOK
  <1> QED
    BY <1>0, <1>1, <1>4, <1>5 DEF IInv, LeaseInv, PatchInv, SeenInv, CallInv, GateInv

LEMMA RoundTripKeeps == ASSUME IInv, NEW p \in Pods, RoundTrip(p) PROVE IInv'
  <1>0. TypeOK /\ LeaseInv /\ PatchInv /\ SeenInv /\ CallInv /\ GateInv /\ WriteInv
    BY DEF IInv
  <1>1. /\ write' = [write EXCEPT ![p] =
                       [stage |-> "sent", limit |-> Deadline(p), left |-> 0]]
        /\ now < Deadline(p)
        /\ UNCHANGED <<now, lease, written, patches, seen, lock, call, gate>>
    BY DEF RoundTrip, electorVars
  <1>2. Deadline(p) \in Nat /\ Deadline(p) <= write[p].limit
    BY <1>0 DEF Deadline, EarliestOf, TypeOK
  <1>3. TypeOK'
    BY <1>0, <1>1, <1>2 DEF TypeOK
  <1>4. WriteInv'
    BY <1>0, <1>1, <1>2 DEF WriteInv, TypeOK
  <1> QED
    BY <1>0, <1>1, <1>3, <1>4 DEF IInv, LeaseInv, PatchInv, SeenInv, CallInv, GateInv

LEMMA TickKeeps == ASSUME IInv, Tick PROVE IInv'
  <1>0. TypeOK /\ LeaseInv /\ PatchInv /\ SeenInv /\ CallInv /\ GateInv /\ WriteInv
    BY DEF IInv
  <1>1. now' = now + 1 /\ now \in Nat
        /\ UNCHANGED <<lease, written, patches, seen, lock, call, gate, write>>
    BY <1>0 DEF Tick, electorVars, TypeOK
  <1>2. TypeOK' /\ LeaseInv' /\ SeenInv' /\ GateInv'
    BY <1>0, <1>1 DEF TypeOK, LeaseInv, SeenInv, GateInv
  <1>3. PatchInv' /\ CallInv'
    BY <1>0, <1>1 DEF PatchInv, CallInv, TypeOK, Patches
  <1>4. WriteInv'
    BY <1>0, <1>1 DEF WriteInv, Tick
  <1> QED
    BY <1>2, <1>3, <1>4 DEF IInv

LEMMA NextKeeps == IInv /\ [Next]_vars => IInv'
  <1> SUFFICES ASSUME IInv, [Next]_vars PROVE IInv'
    OBVIOUS
  <1>1. ASSUME NEW p \in Pods, PodStep(p) PROVE IInv'
    BY <1>1, RenewKeeps, AttemptKeeps, FinishKeeps, LossKeeps, CheckKeeps, RoundTripKeeps
    DEF PodStep
  <1>2. CASE UNCHANGED vars
    BY <1>2 DEF vars, electorVars, IInv, TypeOK, LeaseInv, PatchInv, SeenInv, CallInv,
                GateInv, WriteInv
  <1> QED
    BY <1>1, <1>2, ReceiveKeeps, TickKeeps DEF Next

LEMMA Inductive == Spec => []IInv
  BY InitIInv, NextKeeps, PTL DEF Spec

-----------------------------------------------------------------------------
\* Every variable of the Lease, the electors, the gates and the requests keeps
\* its type.
THEOREM TypeCorrect == Spec => []TypeOK
  BY Inductive, PTL DEF IInv

\* At no time are the gates of two Pods open (WriteGate), for any number of Pods
\* and any delay, loss or restart.
THEOREM OnlyOneGate == Spec => []OneGate
  <1>1. IInv => OneGate
    BY OpenHolds DEF OneGate
  <1> QED
    BY <1>1, Inductive, PTL

\* A request that guardedTransport let through has ended before another Pod's
\* gate opens.
LEMMA SentHolds == ASSUME IInv, NEW p \in Pods, write[p].stage = "sent" PROVE lease.holder = p
  BY DEF IInv, TypeOK, LeaseInv, WriteInv

THEOREM WritesEndBeforeTakeover == Spec => []WritesEndFirst
  <1>1. IInv => WritesEndFirst
    BY OpenHolds, SentHolds DEF WritesEndFirst
  <1> QED
    BY <1>1, Inductive, PTL

\* The Lease leaves its holder only when it has not been written for a whole
\* Lease duration.
THEOREM TakeoverTakesALease == Spec => TakeoverWaits
  <1> DEFINE Waited == (lease'.holder # lease.holder /\ lease.holder # None)
                         => written + LeaseDuration <= now
  <1>1. IInv /\ [Next]_vars => [Waited]_vars
    <2> SUFFICES ASSUME IInv, Next, lease'.holder # lease.holder, lease.holder # None
                 PROVE  written + LeaseDuration <= now
      OBVIOUS
    <2>1. PICK m \in patches : Receive(m)
      BY DEF Next, PodStep, Renew, Attempt, GetFails, Finish, GiveUp, Restart, Check,
             RoundTrip, Return, Tick
    <2>2. m.version = lease.version /\ lease'.holder = m.pod
      BY <2>1 DEF Receive, VersionHolds
    <2>3. m.started \in Nat /\ now \in Nat /\ written \in Nat
      BY DEF IInv, TypeOK, Patches
    <2> QED
      BY <2>2, <2>3 DEF IInv, PatchInv
  <1> QED
    BY <1>1, Inductive, PTL DEF Spec, TakeoverWaits
-----------------------------------------------------------------------------
(* Leadership implements WriteAuthority.                                   *)

\* Owner and Writer name the only Pod of their kind, and the same Pod.
Mapping ==
    /\ Owner \in Pods \cup {None} /\ Writer \in Pods \cup {None}
    /\ \A p \in Pods : Open(p) <=> Owner = p
    /\ \A p \in Pods : write[p].stage = "sent" <=> Writer = p
    /\ (Owner # None /\ Writer # None) => Owner = Writer

LEMMA MappingHolds == IInv => Mapping
  <1> SUFFICES ASSUME IInv PROVE Mapping
    OBVIOUS
  <1>1. \A p, q \in Pods : Open(p) /\ Open(q) => p = q
    BY OpenHolds
  <1>2. \A p, q \in Pods : write[p].stage = "sent" /\ write[q].stage = "sent" => p = q
    BY SentHolds
  <1>3. Owner \in Pods \cup {None} /\ \A p \in Pods : Open(p) <=> Owner = p
    BY <1>1, Zenon DEF Owner
  <1>4. Writer \in Pods \cup {None} /\ \A p \in Pods : write[p].stage = "sent" <=> Writer = p
    BY <1>2, Zenon DEF Writer
  <1>5. (Owner # None /\ Writer # None) => Owner = Writer
    BY <1>3, <1>4, OpenHolds, SentHolds
  <1> QED
    BY <1>3, <1>4, <1>5 DEF Mapping

\* A step that opens no gate and sends nothing withdraws, ends, or both.
LEMMA LossRefines ==
  ASSUME Mapping, Mapping',
         \A p \in Pods : Open(p)' => Open(p),
         \A p \in Pods : write'[p].stage = "sent" => write[p].stage = "sent"
  PROVE  [Authority!Next]_(Authority!vars)
  <1>1. Owner' \in {Owner, None} /\ Writer' \in {Writer, None}
    BY DEF Mapping
  <1>2. Owner # None /\ Writer # None => Owner = Writer
    BY DEF Mapping
  <1> QED
    BY <1>1, <1>2 DEF Authority!Next, Authority!vars, Authority!Withdraw, Authority!End,
                      Authority!Die

LEMMA FinishRefines ==
  ASSUME IInv, Mapping, Mapping', NEW p \in Pods, Finish(p)
  PROVE  [Authority!Next]_(Authority!vars)
  <1>1. \A q \in Pods : write'[q].stage = "sent" <=> write[q].stage = "sent"
    BY DEF Finish
  <1>2. Writer' = Writer
    BY <1>1 DEF Mapping
  <1>3. \A q \in Pods \ {p} : Open(q)' <=> Open(q)
    BY DEF Finish, renew, Revoke, Open, remaining, IInv, TypeOK
  <1>4. CASE Open(p)'
    <2>1. Owner' = p
      BY <1>4 DEF Mapping
    <2>2. Owner \in {None, p}
      BY <1>3, <2>1 DEF Mapping
    <2>3. Writer \in {None, p}
      BY <2>1, <1>2, PodAssumption DEF Mapping
    <2> QED
      BY <1>2, <2>1, <2>2, <2>3 DEF Authority!Next, Authority!vars, Authority!Grant
  <1>5. CASE ~Open(p)'
    BY <1>1, <1>3, <1>5, LossRefines
  <1> QED
    BY <1>4, <1>5

LEMMA RoundTripRefines ==
  ASSUME IInv, Mapping, Mapping', NEW p \in Pods, RoundTrip(p)
  PROVE  [Authority!Next]_(Authority!vars)
  <1>1. /\ write[p].stage # "sent" /\ write'[p].stage = "sent"
        /\ \A q \in Pods \ {p} : write'[q] = write[q]
    BY DEF RoundTrip, IInv, TypeOK
  <1>2. Writer' = p /\ Writer = None
    BY <1>1 DEF Mapping
  <1>3. \A q \in Pods : Open(q)' <=> Open(q)
    BY DEF RoundTrip, Open, remaining
  <1>4. Owner' = Owner /\ Owner \in {None, p}
    BY <1>2, <1>3, PodAssumption DEF Mapping
  <1> QED
    BY <1>2, <1>4 DEF Authority!Next, Authority!Begin

LEMMA NextRefines == IInv /\ Mapping /\ Mapping' /\ [Next]_vars => [Authority!Next]_(Authority!vars)
  <1> SUFFICES ASSUME IInv, Mapping, Mapping', [Next]_vars
               PROVE  [Authority!Next]_(Authority!vars)
    OBVIOUS
  <1> DEFINE NoneOpens == \A p \in Pods : Open(p)' => Open(p)
             NoneSends == \A p \in Pods : write'[p].stage = "sent" => write[p].stage = "sent"
  <1>0. now \in Nat /\ gate \in [Pods -> Nat]
        /\ write \in [Pods -> [stage : {"none", "checked", "sent"}, limit : Nat, left : Nat]]
    BY DEF IInv, TypeOK
  <1>1. ASSUME NEW p \in Pods, Renew(p) \/ Attempt(p) \/ GetFails(p) \/ GiveUp(p)
        PROVE  NoneOpens /\ NoneSends
    BY <1>0, <1>1 DEF Renew, Attempt, GetFails, GiveUp, Revoke, Open, remaining
  <1>2. ASSUME NEW p \in Pods, Restart(p) PROVE NoneOpens /\ NoneSends
    BY <1>0, <1>2 DEF Restart, Revoke, Open, remaining, NoWrite
  <1>3. ASSUME NEW p \in Pods, Check(p) \/ Return(p) PROVE NoneOpens /\ NoneSends
    BY <1>0, <1>3 DEF Check, Return, Open, remaining, NoWrite
  <1>4. ASSUME NEW m \in patches, Receive(m) PROVE NoneOpens /\ NoneSends
    BY <1>4 DEF Receive, Open, remaining
  <1>5. CASE Tick
    <2>1. NoneOpens /\ NoneSends
      BY <1>0, <1>5 DEF Tick, Open, remaining
    <2> QED
      BY <2>1, LossRefines
  <1>6. CASE UNCHANGED vars
    <2>1. NoneOpens /\ NoneSends
      BY <1>6 DEF vars, Open, remaining
    <2> QED
      BY <2>1, LossRefines
  <1>7. ASSUME NEW p \in Pods, PodStep(p) PROVE [Authority!Next]_(Authority!vars)
    BY <1>1, <1>2, <1>3, <1>7, LossRefines, FinishRefines, RoundTripRefines DEF PodStep
  <1> QED
    BY <1>4, <1>5, <1>6, <1>7, LossRefines DEF Next

\* The Lease, the electors and the gates give what WriteAuthority specifies:
\* authority granted to one Pod at a time, and never over another's request.
THEOREM LeadershipImplementsAuthority == Spec => ImplementsAuthority
  <1>1. Init => Authority!Init
    BY DEF Init, Authority!Init, Owner, Writer, Open, remaining, NoWrite
  <1> QED
    BY <1>1, MappingHolds, NextRefines, Inductive, PTL DEF Spec, ImplementsAuthority, Authority!Spec

-----------------------------------------------------------------------------
(* The passes of GuardedPasses.                                            *)

\* A process that leads or has led knows the Lease was created, and only such a
\* process lists and writes.
TermInv ==
    /\ lease.version > 0 => lease.holder # None
    /\ \A p \in Pods :
        /\ term[p].led => lease.version > 0
        /\ pass[p] # "none" => term[p].led
        /\ write[p].stage # "none" => pass[p] # "none"

\* A process that saw another holder has been trying to renew since before it did.
RenewalInv ==
    \A p \in Pods :
        /\ term[p].since <= now
        /\ (term[p].led /\ seen[p].holder # p) =>
             term[p].renewing /\ term[p].since <= seen[p].at

\* No patch of a process that has led is left that could take the Lease back: those
\* it sent before it won name older versions, and later ones went out in time.
LostInv ==
    \A m \in patches :
        /\ call[m.pod].result = "ok" => m.version <= call[m.pod].version
        /\ (term[m.pod].led /\ m.version = lease.version) => lease.holder = m.pod

\* Only the holder's pass can be the one that wrote last.
OvertakenInv == \A p \in Pods : pass[p] = "overtaken" => lease.holder # p

GuardedInv == IInv /\ GuardedTypeOK /\ TermInv /\ RenewalInv /\ LostInv /\ OvertakenInv

LEMMA InitGuardedInv == GuardedInit => GuardedInv
  <1> SUFFICES ASSUME GuardedInit PROVE GuardedInv
    OBVIOUS
  <1>1. IInv
    BY InitIInv DEF GuardedInit
  <1> QED
    BY <1>1 DEF GuardedInit, Init, GuardedInv, GuardedTypeOK, TermInv, RenewalInv, LostInv,
                OvertakenInv, IInv, NoTerm, NoWrite, Unseen

\* Every step of the passes is a step of Leadership, or leaves its state alone.
LEMMA GuardedStep == [GuardedNext]_guardedVars => [Next]_vars
  <1> SUFFICES ASSUME [GuardedNext]_guardedVars PROVE [Next]_vars
    OBVIOUS
  <1>1. UNCHANGED leaderVars => UNCHANGED vars
    BY DEF leaderVars, vars, electorVars
  <1>2. ASSUME NEW p \in Pods, Tries(p) \/ TryEnds(p) \/ ProcessEnds(p) PROVE PodStep(p)
    BY <1>2 DEF Tries, TryEnds, ProcessEnds, PodStep
  <1>3. ASSUME NEW p \in Pods, PassStep(p) PROVE PodStep(p) \/ UNCHANGED vars
    BY <1>3, <1>1 DEF PassStep, List, Call, TakeEffect, CallGoesOn, PassEnds, PodStep
  <1> QED
    BY <1>1, <1>2, <1>3 DEF GuardedNext, Outside, Next, guardedVars

\* A step of the elector that sends at most one patch, for a process p that is in
\* time: what GuardedInv says of patches and terms is kept.
LEMMA TriesKeep == ASSUME GuardedInv, NEW p \in Pods, Tries(p), IInv' PROVE GuardedInv'
  <1>0. IInv /\ GuardedTypeOK /\ TermInv /\ RenewalInv /\ LostInv /\ OvertakenInv
    BY DEF GuardedInv
  <1>1. /\ UNCHANGED <<now, lease, written, write, pass>>
        /\ call[p] = NoCall
    BY DEF Tries, Renew, Attempt, GetFails
  <1>2. /\ term' \in [Pods -> [led : BOOLEAN, renewing : BOOLEAN, since : Nat]]
        /\ \A q \in Pods : term'[q].led = term[q].led
        /\ \A q \in Pods \ {p} : term'[q] = term[q]
        /\ term'[p].since = term[p].since \/ term'[p].since = now
        /\ IF term[p].led /\ ~term[p].renewing
           THEN term'[p].renewing /\ term'[p].since = now ELSE term'[p] = term[p]
    <2>1. term \in [Pods -> [led : BOOLEAN, renewing : BOOLEAN, since : Nat]] /\ now \in Nat
      BY <1>0 DEF GuardedTypeOK, TypeOK
    <2>2. CASE term[p].led /\ ~term[p].renewing
      <3>1. term' = [term EXCEPT ![p] = [term[p] EXCEPT !.renewing = TRUE, !.since = now]]
        BY <2>1, <2>2 DEF Tries
      <3> QED
        BY <2>1, <2>2, <3>1
    <2>3. CASE ~(term[p].led /\ ~term[p].renewing)
      <3>1. term' = term
        BY <2>3 DEF Tries
      <3> QED
        BY <2>1, <2>3, <3>1
    <2> QED
      BY <2>2, <2>3
  <1>3. GuardedTypeOK' /\ TermInv' /\ OvertakenInv'
    BY <1>0, <1>1, <1>2 DEF GuardedTypeOK, TermInv, OvertakenInv, IInv
  <1>4. /\ seen' \in [Pods -> [holder : Pods \cup {None}, version : Nat, at : Nat]]
        /\ \A q \in Pods \ {p} : seen'[q] = seen[q]
        /\ seen'[p] = seen[p] \/ seen'[p].at = now
    BY <1>0 DEF Tries, Renew, Attempt, GetFails, IInv, TypeOK, electorVars
  <1>5. RenewalInv'
    <2>1. now \in Nat /\ term[p].since \in Nat
      BY <1>0 DEF GuardedTypeOK, TypeOK
    <2>2. ASSUME NEW q \in Pods \ {p}
          PROVE  /\ term'[q].since <= now
                 /\ (term'[q].led /\ seen'[q].holder # q) =>
                       term'[q].renewing /\ term'[q].since <= seen'[q].at
      BY <1>0, <1>2, <1>4 DEF RenewalInv
    <2>3. term'[p].since <= now
      BY <2>1, <1>0, <1>2 DEF RenewalInv
    <2>4. ASSUME term[p].led, seen'[p].holder # p
          PROVE  term'[p].renewing /\ term'[p].since <= seen'[p].at
      <3>1. CASE term[p].renewing
        BY <3>1, <2>3, <2>4, <1>0, <1>2, <1>4 DEF RenewalInv
      <3>2. CASE ~term[p].renewing
        <4>1. seen[p].holder = p
          BY <3>2, <2>4, <1>0 DEF RenewalInv
        <4> QED
          BY <3>2, <4>1, <2>1, <2>4, <1>2, <1>4
      <3> QED
        BY <3>1, <3>2
    <2> QED
      BY <2>2, <2>3, <2>4, <1>1, <1>2 DEF RenewalInv
  <1>6. ASSUME NEW v \in Nat, Send(p, v),
               (term[p].led /\ v = lease.version) => lease.holder = p
        PROVE  LostInv'
    <2>1. patches' = patches \cup {[pod |-> p, version |-> v, started |-> now]}
      BY <1>6 DEF Send
    <2>2. /\ call'[p].result = "pending"
          /\ \A q \in Pods \ {p} : call'[q] = call[q]
      BY <1>6, <1>0 DEF Send, IInv, TypeOK
    <2>3. \A m \in patches : m.pod \in Pods
      BY <1>0 DEF IInv, TypeOK, Patches
    <2> QED
      BY <2>1, <2>2, <2>3, <1>0, <1>1, <1>2, <1>6 DEF LostInv
  <1>7. ASSUME UNCHANGED <<call, patches>> PROVE LostInv'
    <2>1. \A m \in patches : m.pod \in Pods
      BY <1>0 DEF IInv, TypeOK, Patches
    <2> QED
      BY <2>1, <1>7, <1>0, <1>1, <1>2 DEF LostInv
  <1>8. LostInv'
    <2>1. CASE Renew(p)
      <3>1. lock[p] \in Nat /\ (lock[p] = lease.version => lease.holder = p)
        BY <2>1, <1>0 DEF Renew, IInv, TypeOK, SeenInv
      <3> QED
        BY <2>1, <3>1, <1>6 DEF Renew
    <2>2. CASE Attempt(p)
      <3> DEFINE record == IF seen[p].version = lease.version THEN seen[p]
                           ELSE [holder |-> lease.holder, version |-> lease.version, at |-> now]
      <3>1. CASE Send(p, lease.version) /\ (lease.holder \in {None, p} \/ Expired(record))
        <4>1. term[p].led => lease.holder # None
          BY <1>0 DEF TermInv
        <4>2. ASSUME term[p].led, lease.holder # p PROVE FALSE
          <5>1. record.at + LeaseDuration <= now
            BY <3>1, <4>1, <4>2 DEF Expired
          <5>2. now \in Nat /\ seen[p].at \in Nat /\ term[p].since \in Nat
            BY <1>0 DEF IInv, TypeOK, GuardedTypeOK
          <5>3. seen[p].version = lease.version /\ seen[p].at + LeaseDuration <= now
            BY <5>1, <5>2
          <5>4. seen[p].holder # p
            BY <5>3, <4>2, <1>0 DEF IInv, SeenInv
          <5>5. term[p].renewing /\ term[p].since <= seen[p].at
            BY <5>4, <4>2, <1>0 DEF RenewalInv
          <5>6. now < term[p].since + RenewDeadline
            BY <5>5 DEF Tries, InTime
          <5> QED
            BY <5>2, <5>3, <5>5, <5>6, RenewAssumption
        <4>3. lease.version \in Nat
          BY <1>0 DEF IInv, TypeOK
        <4> QED
          BY <3>1, <4>2, <4>3, <1>6
      <3>2. CASE UNCHANGED <<call, patches>>
        BY <3>2, <1>7
      <3> QED
        BY <2>2, <3>1, <3>2 DEF Attempt
    <2>3. CASE GetFails(p)
      BY <2>3, <1>7 DEF GetFails, electorVars
    <2> QED
      BY <2>1, <2>2, <2>3 DEF Tries
  <1> QED
    BY <1>3, <1>5, <1>8 DEF GuardedInv

\* A process that learns it has the Lease: its earlier patches name older versions.
LEMMA TryEndsKeeps == ASSUME GuardedInv, NEW p \in Pods, TryEnds(p), IInv' PROVE GuardedInv'
  <1>0. IInv /\ GuardedTypeOK /\ TermInv /\ RenewalInv /\ LostInv /\ OvertakenInv
    BY DEF GuardedInv
  <1>1. /\ UNCHANGED <<now, lease, written, patches, write, pass>>
        /\ call' = [call EXCEPT ![p] = NoCall]
    BY DEF TryEnds, Finish, GiveUp
  <1>2. \A m \in patches : m.pod \in Pods /\ m.version \in Nat
    BY <1>0 DEF IInv, TypeOK, Patches
  <1>3. \A q \in Pods : call'[q] = IF q = p THEN NoCall ELSE call[q]
    BY <1>0, <1>1 DEF IInv, TypeOK
  <1>4. CASE /\ Finish(p) /\ call[p].result = "ok"
             /\ term' = [term EXCEPT ![p] = Learns(p)]
    <2>1. /\ term' = [term EXCEPT ![p] = [led |-> TRUE, renewing |-> FALSE, since |-> 0]]
          /\ seen' = [seen EXCEPT ![p] =
                        [holder |-> p, version |-> call[p].version + 1, at |-> now]]
      BY <1>4 DEF Finish, Learns
    <2>2. call[p].version \in Nat /\ lease.version \in Nat /\ call[p].version + 1 <= lease.version
      BY <1>4, <1>0 DEF IInv, TypeOK, CallInv
    <2>3. term' \in [Pods -> [led : BOOLEAN, renewing : BOOLEAN, since : Nat]]
      BY <2>1, <1>0 DEF GuardedTypeOK
    <2>4. GuardedTypeOK' /\ OvertakenInv'
      BY <2>3, <1>0, <1>1 DEF GuardedTypeOK, OvertakenInv, IInv
    <2>5. TermInv'
      BY <2>1, <2>2, <1>0, <1>1 DEF TermInv, GuardedTypeOK
    <2>6. RenewalInv'
      BY <2>1, <1>0, <1>1 DEF RenewalInv, GuardedTypeOK, IInv, TypeOK
    <2>7. LostInv'
      <3> SUFFICES ASSUME NEW m \in patches
                   PROVE  /\ call'[m.pod].result = "ok" => m.version <= call'[m.pod].version
                          /\ (term'[m.pod].led /\ m.version = lease.version)
                               => lease.holder = m.pod
        BY <1>1 DEF LostInv
      <3>1. CASE m.pod = p
        BY <3>1, <1>2, <1>3, <1>4, <2>2, <1>0 DEF LostInv, NoCall
      <3>2. CASE m.pod # p
        BY <3>2, <1>2, <1>3, <2>1, <1>0 DEF LostInv, GuardedTypeOK
      <3> QED
        BY <3>1, <3>2
    <2> QED
      BY <2>4, <2>5, <2>6, <2>7 DEF GuardedInv
  <1>5. CASE UNCHANGED <<term, seen>>
    <2>1. GuardedTypeOK' /\ OvertakenInv' /\ TermInv' /\ RenewalInv'
      BY <1>5, <1>0, <1>1 DEF GuardedTypeOK, OvertakenInv, TermInv, RenewalInv, IInv
    <2>2. LostInv'
      BY <1>5, <1>0, <1>1, <1>2, <1>3 DEF LostInv, NoCall
    <2> QED
      BY <2>1, <2>2 DEF GuardedInv
  <1> QED
    BY <1>4, <1>5 DEF TryEnds, Finish, GiveUp

LEMMA ProcessEndsKeeps ==
  ASSUME GuardedInv, NEW p \in Pods, ProcessEnds(p), IInv' PROVE GuardedInv'
  <1>0. IInv /\ GuardedTypeOK /\ TermInv /\ RenewalInv /\ LostInv /\ OvertakenInv
    BY DEF GuardedInv
  <1>1. /\ UNCHANGED <<now, lease, written, patches>>
        /\ term' = [term EXCEPT ![p] = [led |-> FALSE, renewing |-> FALSE, since |-> 0]]
        /\ pass' = [pass EXCEPT ![p] = "none"]
        /\ seen' = [seen EXCEPT ![p] = Unseen]
        /\ call' = [call EXCEPT ![p] = NoCall]
        /\ write' = [write EXCEPT ![p] = NoWrite]
    BY DEF ProcessEnds, Restart, NoTerm
  <1>2. GuardedTypeOK'
    BY <1>0, <1>1 DEF GuardedTypeOK, IInv
  <1>3. OvertakenInv' /\ TermInv'
    BY <1>0, <1>1 DEF OvertakenInv, TermInv, GuardedTypeOK, IInv, TypeOK, NoWrite
  <1>4. RenewalInv'
    BY <1>0, <1>1 DEF RenewalInv, GuardedTypeOK, IInv, TypeOK
  <1>5. LostInv'
    <2>1. \A m \in patches : m.pod \in Pods
      BY <1>0 DEF IInv, TypeOK, Patches
    <2> QED
      BY <2>1, <1>0, <1>1 DEF LostInv, GuardedTypeOK, IInv, TypeOK, NoCall
  <1> QED
    BY <1>2, <1>3, <1>4, <1>5 DEF GuardedInv

\* The API server does not give the Lease back to a process that lost it.
LEMMA ReceiveLost ==
  ASSUME GuardedInv, NEW m \in patches, Receive(m),
         NEW p \in Pods, term[p].led, lease.holder # p
  PROVE  lease'.holder # p
  BY DEF GuardedInv, LostInv, Receive, VersionHolds

LEMMA ReceiveKeepsGuarded ==
  ASSUME GuardedInv, NEW m \in patches, Receive(m), UNCHANGED passVars, IInv'
  PROVE  GuardedInv'
  <1>0. IInv /\ GuardedTypeOK /\ TermInv /\ RenewalInv /\ LostInv /\ OvertakenInv
    BY DEF GuardedInv
  <1>1. /\ UNCHANGED <<now, seen, write, term, pass>> /\ patches' \subseteq patches
        /\ m.pod \in Pods /\ m.version \in Nat
    BY <1>0 DEF Receive, passVars, IInv, TypeOK, Patches
  <1>2. GuardedTypeOK' /\ RenewalInv'
    BY <1>0, <1>1 DEF GuardedTypeOK, RenewalInv, IInv
  <1>3. OvertakenInv'
    <2>1. ASSUME NEW p \in Pods, pass[p] = "overtaken" PROVE lease'.holder # p
      BY <2>1, <1>0, ReceiveLost DEF OvertakenInv, TermInv
    <2> QED
      BY <2>1, <1>1 DEF OvertakenInv
  <1>4. \A n \in patches : n.pod \in Pods /\ n.version \in Nat /\ n.version <= lease.version
    BY <1>0 DEF IInv, TypeOK, Patches, PatchInv
  <1>5. CASE VersionHolds(m)
    <2>1. lease' = [holder |-> m.pod, version |-> lease.version + 1] /\ m.version = lease.version
      BY <1>5 DEF Receive, VersionHolds
    <2>2. lease.version \in Nat
      BY <1>0 DEF IInv, TypeOK
    <2>3. TermInv'
      BY <2>1, <2>2, <1>0, <1>1, PodAssumption DEF TermInv
    <2>4. ASSUME NEW n \in patches, call'[n.pod].result = "ok"
          PROVE  n.version <= call'[n.pod].version
      <3>1. CASE Waits(m) /\ n.pod = m.pod
        <4>1. call'[m.pod].version = m.version
          BY <3>1, <1>0, <1>1 DEF Receive, Waits, IInv, TypeOK
        <4> QED
          BY <3>1, <4>1, <2>1, <1>4
      <3>2. CASE call'[n.pod] = call[n.pod]
        BY <3>2, <2>4, <1>0 DEF LostInv
      <3> QED
        BY <3>1, <3>2, <1>0, <1>4 DEF Receive, IInv, TypeOK
    <2>5. LostInv'
      BY <2>1, <2>2, <2>4, <1>1, <1>4 DEF LostInv
    <2> QED
      BY <1>2, <1>3, <2>3, <2>5 DEF GuardedInv
  <1>6. CASE ~VersionHolds(m)
    <2>1. UNCHANGED lease
      BY <1>6 DEF Receive
    <2>2. TermInv'
      BY <2>1, <1>0, <1>1 DEF TermInv
    <2>3. \A n \in patches : call'[n.pod].result = "ok" => call'[n.pod] = call[n.pod]
      BY <1>6, <1>0, <1>1, <1>4 DEF Receive, IInv, TypeOK
    <2>4. LostInv'
      BY <2>1, <2>3, <1>0, <1>1 DEF LostInv
    <2> QED
      BY <1>2, <1>3, <2>2, <2>4 DEF GuardedInv
  <1> QED
    BY <1>5, <1>6

LEMMA PassKeeps == ASSUME GuardedInv, NEW p \in Pods, PassStep(p), IInv' PROVE GuardedInv'
  <1>0. IInv /\ GuardedTypeOK /\ TermInv /\ RenewalInv /\ LostInv /\ OvertakenInv
    BY DEF GuardedInv
  <1>1. UNCHANGED <<now, lease, patches, seen, call, term>>
    BY DEF PassStep, List, Call, TakeEffect, CallGoesOn, PassEnds, leaderVars, passVars,
           Check, RoundTrip, Return, electorVars
  <1>2. RenewalInv' /\ LostInv'
    BY <1>0, <1>1 DEF RenewalInv, LostInv
  <1>3. /\ pass \in [Pods -> {"none", "current", "overtaken"}]
        /\ write \in [Pods -> [stage : {"none", "checked", "sent"}, limit : Nat, left : Nat]]
    BY <1>0 DEF GuardedTypeOK, TypeOK
  <1>4. ASSUME pass' \in [Pods -> {"none", "current", "overtaken"}], TermInv', OvertakenInv'
        PROVE  GuardedInv'
    BY <1>0, <1>1, <1>2, <1>4 DEF GuardedInv, GuardedTypeOK, IInv
  <1>5. CASE List(p)
    BY <1>5, <1>0, <1>1, <1>3, <1>4 DEF List, MayList, leaderVars, TermInv, OvertakenInv
  <1>6. CASE Call(p)
    <2>1. UNCHANGED pass /\ pass[p] # "none"
      BY <1>6 DEF Call, passVars
    <2>2. \A q \in Pods \ {p} : write'[q] = write[q]
      BY <1>6, <1>3 DEF Call, Check
    <2> QED
      BY <2>1, <2>2, <1>0, <1>1, <1>3, <1>4 DEF TermInv, OvertakenInv
  <1>7. CASE TakeEffect(p)
    <2>1. UNCHANGED write /\ pass' = Overtaken(p) /\ lease.holder = p
      BY <1>7, <1>0, SentHolds DEF TakeEffect, leaderVars
    <2>2. \A q \in Pods :
             /\ pass'[q] = "none" <=> pass[q] = "none"
             /\ pass'[q] = "overtaken" => q # p \/ pass[q] = "overtaken"
      BY <2>1 DEF Overtaken
    <2>3. pass' \in [Pods -> {"none", "current", "overtaken"}]
      BY <2>1, <1>3 DEF Overtaken
    <2>4. TermInv'
      BY <2>1, <2>2, <1>0, <1>1 DEF TermInv
    <2>5. OvertakenInv'
      BY <2>1, <2>2, <1>0, <1>1 DEF OvertakenInv
    <2> QED
      BY <2>3, <2>4, <2>5, <1>4
  <1>8. CASE CallGoesOn(p)
    <2>1. UNCHANGED pass
      BY <1>8 DEF CallGoesOn, passVars
    <2>2. \A q \in Pods : write'[q].stage # "none" => write[q].stage # "none"
      BY <1>8, <1>3 DEF CallGoesOn, RoundTrip, Return, NoWrite
    <2> QED
      BY <2>1, <2>2, <1>0, <1>1, <1>3, <1>4 DEF TermInv, OvertakenInv
  <1>9. CASE PassEnds(p)
    <2>1. write[p].stage = "none" /\ UNCHANGED write /\ pass' = [pass EXCEPT ![p] = "none"]
      BY <1>9 DEF PassEnds, leaderVars, NoWrite
    <2> QED
      BY <2>1, <1>0, <1>1, <1>3, <1>4 DEF TermInv, OvertakenInv
  <1> QED
    BY <1>5, <1>6, <1>7, <1>8, <1>9 DEF PassStep

LEMMA GuardedKeeps == GuardedInv /\ [GuardedNext]_guardedVars => GuardedInv'
  <1> SUFFICES ASSUME GuardedInv, [GuardedNext]_guardedVars PROVE GuardedInv'
    OBVIOUS
  <1>1. IInv'
    BY GuardedStep, NextKeeps DEF GuardedInv
  <1>2. CASE Tick /\ UNCHANGED passVars
    <2>1. /\ now' = now + 1 /\ now \in Nat
          /\ UNCHANGED <<lease, patches, seen, call, write, term, pass>>
      BY <1>2 DEF Tick, passVars, electorVars, GuardedInv, IInv, TypeOK
    <2>2. RenewalInv'
      BY <2>1 DEF GuardedInv, RenewalInv, GuardedTypeOK
    <2> QED
      BY <1>1, <2>1, <2>2
      DEF GuardedInv, GuardedTypeOK, IInv, TermInv, LostInv, OvertakenInv
  <1>3. CASE UNCHANGED guardedVars
    BY <1>1, <1>3 DEF guardedVars, leaderVars, passVars, GuardedInv, GuardedTypeOK, IInv,
                      TermInv, RenewalInv, LostInv, OvertakenInv
  <1> QED
    BY <1>1, <1>2, <1>3, TriesKeep, TryEndsKeeps, ProcessEndsKeeps, PassKeeps,
       ReceiveKeepsGuarded DEF GuardedNext, Outside

\* What is proved of Leadership holds under the passes too.
LEMMA PassesRefineLeadership == GuardedSpec => Spec
  BY GuardedStep, PTL DEF GuardedSpec, GuardedInit, Spec

LEMMA GuardedInductive == GuardedSpec => []GuardedInv
  BY InitGuardedInv, GuardedKeeps, PTL DEF GuardedSpec

\* The terms and the passes keep their types, with the variables of Leadership.
THEOREM GuardedTypeCorrect == GuardedSpec => []GuardedTypeOK
  BY GuardedInductive, PTL DEF GuardedInv

\* Whatever stalls, fails or restarts, the pass that writes has listed since any
\* other Pod last wrote (runtime.go, Run, and leadership.go, RoundTrip): the
\* writes of all Pods are those of one supervisor.
THEOREM PassesAreCurrent == GuardedSpec => []WritesAreCurrent
  <1>1. GuardedInv => WritesAreCurrent
    <2> SUFFICES ASSUME GuardedInv, NEW p \in Pods, write[p].stage = "sent"
                 PROVE  pass[p] = "current"
      BY DEF WritesAreCurrent
    <2>1. lease.holder = p
      BY SentHolds DEF GuardedInv
    <2>2. pass[p] \in {"none", "current", "overtaken"} /\ pass[p] # "none"
      BY DEF GuardedInv, GuardedTypeOK, TermInv
    <2> QED
      BY <2>1, <2>2 DEF GuardedInv, OvertakenInv
  <1> QED
    BY <1>1, GuardedInductive, PTL

\* A process that led and lost the Lease does not have it again before it has
\* ended, because it stops renewing before its own record of the Lease expires.
THEOREM LosesForGood == GuardedSpec => LostForGood
  <1> DEFINE Stays == \A p \in Pods :
                         (term[p].led /\ lease.holder # p) => lease'.holder # p
  <1>1. GuardedInv /\ [GuardedNext]_guardedVars => [Stays]_guardedVars
    <2> SUFFICES ASSUME GuardedInv, GuardedNext, NEW p \in Pods, term[p].led, lease.holder # p
                 PROVE  lease'.holder # p
      OBVIOUS
    <2>1. CASE \E m \in patches : Receive(m)
      BY <2>1, ReceiveLost
    <2>2. CASE UNCHANGED lease
      BY <2>2
    <2> QED
      BY <2>1, <2>2 DEF GuardedNext, Tries, TryEnds, ProcessEnds, PassStep, Outside, List, Call,
         TakeEffect, CallGoesOn, PassEnds, leaderVars, Renew, Attempt, GetFails, Finish, GiveUp,
         Restart, Check, RoundTrip, Return, Tick
  <1> QED
    BY <1>1, GuardedInductive, PTL DEF GuardedSpec, LostForGood
=============================================================================
