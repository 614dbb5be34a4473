-------------------------- MODULE TransitionProofs --------------------------
(***************************************************************************)
(* Proofs about the releases Supervisor installs: which may follow which,  *)
(* what a pause stops, that no release is served on another's schema, and  *)
(* that the passes implement Transition.                                   *)
(*                                                                         *)
(* A pass decides in one step and commits in another, and anything may     *)
(* happen between.  So every rule is stated of the pair of the stored      *)
(* status and the outcome a pass is about to commit (Moves, Renews,        *)
(* TargetRule, PauseRule), and holds from the decision on.  What a pass    *)
(* may decide is worked out once: PassOutcome sums the actions of          *)
(* Reconcile up in eight kinds of outcome and the look for a Job, after    *)
(* which the pass goes on; the rest follows from these.                    *)
(***************************************************************************)
EXTENDS SupervisorProofs

\* Two statuses agree but for attempts, the time of a retry and the conditions.
SameRecord(s, t) ==
    /\ s.current = t.current /\ s.target = t.target /\ s.phase = t.phase
    /\ s.configurationHash = t.configurationHash /\ s.transitionHash = t.transitionHash
    /\ s.transitionID = t.transitionID /\ s.mayHaveRun = t.mayHaveRun
    /\ s.migrationDigest = t.migrationDigest

-----------------------------------------------------------------------------
(* The kinds of outcome o of a pass that acts, and what it has written.    *)

\* The analyzer's Deployment is applied for the target, with n replicas.
Scales(n) ==
    /\ rec.status.target \in Releases /\ rec.status.transitionHash = hash
    /\ analyzer' = Applied(rec.status.target, hash, n)

\* It waits, refuses or fails.
Stays(o) == SameRecord(o, rec.status) /\ ~o.ready
\* It drops a target for a pause, before the migration boundary.
GivesUp(o) == PauseRequested /\ MayCancel /\ SameRecord(o, work) /\ ~o.ready
\* It finds the installed release settled and keeps its analyzer.
Settles(o) ==
    /\ PauseRequested => MayCancel
    /\ work.current # None /\ Settled(work, work.current) /\ work.target = None
    /\ SameRecord(o, work) /\ analyzer' = Applied(work.current, hash, 1)
\* It starts a transition, instead of another one perhaps.
Opens(o) ==
    /\ o.current = rec.status.current /\ o.target \in Releases /\ o.phase = "preflight"
    /\ o.transitionID = rec.status.transitionID + 1 /\ ~o.ready
    /\ o.current # None => MayFollow(o.current, o.target)
    /\ Paused => o.target = o.current
    /\ \/ /\ rec.status.target = None
          /\ o.mayHaveRun = IF rec.status.mayHaveRun = "unknown" THEN "no"
                            ELSE rec.status.mayHaveRun
       \/ /\ PauseRequested /\ MayCancel
          /\ o.mayHaveRun = rec.status.mayHaveRun
       \/ /\ rec.status.target # None /\ o.target # rec.status.target /\ ~Paused
          /\ o.mayHaveRun = IF rec.status.mayHaveRun = "unknown" THEN "yes"
                            ELSE rec.status.mayHaveRun
          /\ rec.status.mayHaveRun # "no" =>
                \/ Version[o.target] >= Version[rec.status.target]
                \/ /\ rec.status.migrationDigest = rec.status.target
                   /\ RollbackAllowed(rec.status.target, o.target)
\* It replaces the target by a release that is refused.
Drops(o) ==
    /\ ~Paused /\ rec.status.target # None /\ o.target = None
    /\ o.current = rec.status.current /\ o.phase = "preflight"
    /\ o.transitionID = rec.status.transitionID /\ ~o.ready
    /\ o.mayHaveRun = IF rec.status.mayHaveRun = "unknown" THEN "yes" ELSE rec.status.mayHaveRun
\* It restarts the checks with the configuration as it is now.
Rebases(o) ==
    /\ rec.status.target # None /\ ~PauseRequested /\ rec.status.transitionHash # hash
    /\ o.current = rec.status.current /\ o.target = rec.status.target
    /\ o.phase = "preflight" /\ o.transitionHash = hash
    /\ o.transitionID = rec.status.transitionID + 1
    /\ o.mayHaveRun = rec.status.mayHaveRun /\ ~o.ready
\* It enters the next phase, on the Job of this one or with no Pod left.
Passes(o) ==
    /\ rec.status.target \in Releases /\ ~PauseRequested
    /\ rec.status.phase \in {"preflight", "quiesce", "migration", "rollout", "verify", "supervisor"}
    /\ o.current = rec.status.current /\ o.target = rec.status.target
    /\ o.phase = PhaseAfter(rec.status, rec.status.target)
    /\ o.transitionHash = rec.status.transitionHash
    /\ o.transitionID = rec.status.transitionID
    /\ o.mayHaveRun = IF o.phase = "migration" THEN "yes" ELSE rec.status.mayHaveRun
    /\ o.ready => o.phase = "complete"
    /\ rec.status.phase \in JobPhases => Name \in jobComplete
    /\ rec.status.phase = "quiesce" => serving = {}
    /\ rec.status.phase = "rollout" => Scales(1)
\* It records the target as installed.
Completes(o) ==
    /\ rec.status.target \in Releases /\ ~PauseRequested /\ rec.status.phase = "complete"
    /\ rec.status.transitionHash = hash
    /\ o.current = rec.status.target /\ o.target = None /\ o.phase = "complete"
    /\ o.configurationHash = hash /\ o.mayHaveRun = "no"
    /\ o.transitionID = rec.status.transitionID

\* It goes on to the Job it has looked for, and decides nothing yet.
Looks == /\ rec.pc = "act" /\ rec' = [rec EXCEPT !.pc = "job"]
         /\ UNCHANGED <<analyzer, jobRunning>>

Outcome(o) ==
    \/ Stays(o) \/ GivesUp(o) \/ Settles(o) \/ Opens(o) \/ Drops(o)
    \/ Rebases(o) \/ Passes(o) \/ Completes(o)

\* What the pass may have done to the analyzer and the Jobs.
Writes ==
    /\ \/ analyzer' = analyzer
       \/ /\ PauseRequested => MayCancel
          /\ work.current # None /\ work.target = None /\ Settled(work, work.current)
          /\ analyzer' = Applied(work.current, hash, 1)
       \/ rec.status.phase = "quiesce" /\ Scales(0)
       \/ rec.status.phase = "rollout" /\ Scales(1)
    /\ \A n \in jobRunning' \ jobRunning : n.transitionID = rec.status.transitionID

-----------------------------------------------------------------------------
LEMMA BlockRecord ==
  ASSUME NEW s \in Statuses, Block(s)
  PROVE  \E o \in Statuses : Answers(o) /\ SameRecord(o, s) /\ ~o.ready
  <1> DEFINE o == [s EXCEPT !.blocked = TRUE, !.ready = FALSE]
  <1>1. o \in Statuses /\ SameRecord(o, s) /\ ~o.ready
    BY DEF Statuses, SameRecord
  <1>2. Answers(o)
    BY DEF Block, Reply, Answers
  <1> QED
    BY <1>1, <1>2

LEMMA ProceedRecord ==
  ASSUME NEW s \in Statuses, Proceed(s)
  PROVE  \E o \in Statuses : Answers(o) /\ SameRecord(o, s) /\ (o.ready => s.phase = "complete")
  <1> DEFINE o == [s EXCEPT !.blocked = FALSE, !.ready = (s.phase = "complete")]
             ready == s.phase = "complete"
  <1>1. Answers(o) /\ ready \in BOOLEAN
    BY DEF Proceed, Reply, Answers
  <1>2. o = [s EXCEPT !.blocked = FALSE, !.ready = ready]
    OBVIOUS
  <1>3. ready => s.phase = "complete"
    OBVIOUS
  <1> HIDE DEF ready, o
  <1>4. o \in Statuses /\ o.ready = ready
    BY <1>1, <1>2 DEF Statuses
  <1>5. SameRecord(o, s)
    BY <1>2 DEF Statuses, SameRecord
  <1> QED
    BY <1>1, <1>3, <1>4, <1>5

\* A pause that may cancel drops the target from the working status.
LEMMA WorkRecord ==
  ASSUME TypeOK
  PROVE  /\ work \in Statuses
         /\ ~PauseRequested => work = rec.status
         /\ PauseRequested => /\ work.target = None /\ work.phase = "complete"
                              /\ rec.status.target \notin {None, rec.status.current}
         /\ work.current = rec.status.current /\ work.transitionID = rec.status.transitionID
         /\ work.mayHaveRun = rec.status.mayHaveRun
         /\ work.configurationHash = rec.status.configurationHash
  <1>1. work \in Statuses /\ rec.status \in Statuses
    BY WorkTyped DEF TypeOK
  <1> QED
    BY <1>1 DEF work, Statuses, PauseRequested

\* A transition that may start, and one that may not.
LEMMA BeginRecord ==
  ASSUME TypeOK, NEW s \in Statuses, NEW sel \in Releases, Begin(s, sel)
  PROVE  \E o \in Statuses :
            /\ Answers(o) /\ ~o.ready
            /\ \/ SameRecord(o, s)
               \/ /\ o.current = s.current /\ o.target = sel /\ o.phase = "preflight"
                  /\ o.transitionID = s.transitionID + 1
                  /\ o.mayHaveRun = IF s.mayHaveRun = "unknown" THEN "no" ELSE s.mayHaveRun
                  /\ s.current # None => MayFollow(s.current, sel)
  <1>1. CASE MayStart(s, sel)
    <2> DEFINE v == IF s.mayHaveRun = "unknown" THEN "no" ELSE s.mayHaveRun
               o == [Restarted(s) EXCEPT !.target = sel, !.mayHaveRun = v]
    <2>1. /\ Restarted(s) \in Statuses
          /\ Restarted(s).phase = "preflight" /\ Restarted(s).current = s.current
          /\ Restarted(s).transitionID = s.transitionID + 1 /\ ~Restarted(s).ready
          /\ Restarted(s).mayHaveRun = s.mayHaveRun
      BY RestartedTyped, ZenonT(60) DEF Restarted, Statuses
    <2>2. v \in {"unknown", "no", "yes"}
      BY DEF Statuses
    <2>3. Answers(o)
      BY <1>1, <2>1 DEF Begin, Reply, Answers
    <2> HIDE DEF v
    <2>4. o \in Statuses
      BY <2>1, <2>2, ZenonT(60) DEF Statuses
    <2>5. /\ o.current = s.current /\ o.target = sel /\ o.phase = "preflight"
          /\ o.transitionID = s.transitionID + 1 /\ ~o.ready /\ o.mayHaveRun = v
      BY <2>1, ZenonT(60) DEF Statuses
    <2>6. s.current # None => MayFollow(s.current, sel)
      <3>1. s.current \in Releases \cup {None}
        BY DEF Statuses
      <3> QED
        BY <1>1, <3>1, ReleaseAssumption DEF MayStart, MayFollow
    <2> HIDE DEF o
    <2> QED
      BY <2>3, <2>4, <2>5, <2>6 DEF v
  <1>2. CASE ~MayStart(s, sel)
    BY <1>2, BlockRecord DEF Begin
  <1> QED
    BY <1>1, <1>2

-----------------------------------------------------------------------------
(* The kind of outcome of each action.                                     *)
LEMMA StopOutcome ==
  ASSUME IInv, HoldPause \/ CatalogFails \/ Refuse \/ LoseReply
  PROVE  \E o \in Statuses : Answers(o) /\ Stays(o)
  <1>1. Block(rec.status) /\ rec.status \in Statuses
    BY DEF HoldPause, CatalogFails, Refuse, LoseReply, Fail, IInv, TypeOK
  <1> QED
    BY <1>1, BlockRecord DEF Stays

LEMMA DigestChangedOutcome ==
  ASSUME IInv, DigestChanged
  PROVE  \E o \in Statuses : Answers(o) /\ Stays(o)
  <1>1. Block(work) /\ work.target # None
    BY DEF DigestChanged
  <1>2. work = rec.status /\ work \in Statuses
    BY <1>1, WorkRecord DEF IInv
  <1> QED
    BY <1>1, <1>2, BlockRecord DEF Stays

LEMMA DetachedRecord ==
  ASSUME NEW s \in Statuses
  PROVE  /\ Detached(s).current = s.current /\ Detached(s).target = None
         /\ Detached(s).transitionID = s.transitionID
         /\ Detached(s).mayHaveRun = IF s.mayHaveRun = "unknown" THEN "yes" ELSE s.mayHaveRun
  <1> DEFINE ran == IF s.mayHaveRun = "unknown" THEN "yes" ELSE s.mayHaveRun
  <1>1. Detached(s) = [s EXCEPT !.target = None, !.phase = "preflight", !.mayHaveRun = ran]
    BY DEF Detached
  <1> HIDE DEF ran
  <1>2. Detached(s).mayHaveRun = ran
    BY <1>1, ZenonT(60) DEF Statuses
  <1>3. Detached(s).current = s.current /\ Detached(s).target = None
        /\ Detached(s).transitionID = s.transitionID
    BY <1>1, ZenonT(60) DEF Statuses
  <1> QED
    BY <1>2, <1>3 DEF ran

LEMMA ReplaceTargetOutcome ==
  ASSUME IInv, ReplaceTarget
  PROVE  \E o \in Statuses : Answers(o) /\ (Stays(o) \/ Opens(o) \/ Drops(o))
  <1>1. PICK sel \in Candidates, req \in Select(rec.spec.pin) :
          /\ Selected(sel) /\ Replacing(sel, req)
          /\ IF MayReplace(sel, req) THEN Begin(Detached(rec.status), req)
                                     ELSE Block(rec.status)
    BY DEF ReplaceTarget
  <1>2. /\ TypeOK /\ rec.status \in Statuses /\ req \in Releases /\ sel \in Releases
        /\ ~Paused /\ req # sel /\ rec.status.target = sel /\ sel # None
    <2>1. TypeOK /\ rec.status \in Statuses /\ req \in Releases /\ sel \in Releases
      BY <1>1, SelectTyped, CandidatesTyped DEF IInv, TypeOK
    <2>2. ~Paused /\ req # sel /\ work.target = sel
      BY <1>1 DEF Selected, Replacing
    <2> QED
      BY <2>1, <2>2, WorkRecord, ReleaseAssumption DEF PauseRequested
  <1>3. CASE ~MayReplace(sel, req)
    BY <1>1, <1>2, <1>3, BlockRecord DEF Stays
  <1>4. CASE MayReplace(sel, req)
    <2> DEFINE s == Detached(rec.status)
    <2>1. /\ s \in Statuses /\ s.phase = "preflight"
          /\ s.current = rec.status.current /\ s.target = None
          /\ s.transitionID = rec.status.transitionID
          /\ s.mayHaveRun = IF rec.status.mayHaveRun = "unknown" THEN "yes"
                            ELSE rec.status.mayHaveRun
      BY <1>2, DetachedTyped, DetachedRecord
    <2>2. Begin(s, req)
      BY <1>1, <1>4
    <2> HIDE DEF s
    <2>3. PICK o \in Statuses :
            /\ Answers(o) /\ ~o.ready
            /\ \/ SameRecord(o, s)
               \/ /\ o.current = s.current /\ o.target = req /\ o.phase = "preflight"
                  /\ o.transitionID = s.transitionID + 1
                  /\ o.mayHaveRun = IF s.mayHaveRun = "unknown" THEN "no" ELSE s.mayHaveRun
                  /\ s.current # None => MayFollow(s.current, req)
      BY <1>2, <2>1, <2>2, BeginRecord
    <2>4. CASE SameRecord(o, s)
      BY <1>2, <2>1, <2>3, <2>4 DEF SameRecord, Drops
    <2>5. CASE ~SameRecord(o, s)
      <3>1. rec.status.mayHaveRun # "no" =>
                \/ Version[req] >= Version[sel]
                \/ rec.status.migrationDigest = sel /\ RollbackAllowed(sel, req)
        BY <1>2, <1>4, ReleaseAssumption DEF MayReplace
      <3>2. s.mayHaveRun # "unknown" /\ o.mayHaveRun = s.mayHaveRun
        BY <2>1, <2>3, <2>5
      <3>3. Opens(o)
        BY <1>2, <2>1, <2>3, <2>5, <3>1, <3>2 DEF Opens
      <3> QED
        BY <2>3, <3>3
    <2> QED
      BY <2>3, <2>4, <2>5
  <1> QED
    BY <1>3, <1>4

LEMMA BeginTransitionOutcome ==
  ASSUME IInv, BeginTransition
  PROVE  \E o \in Statuses : Answers(o) /\ (Stays(o) \/ GivesUp(o) \/ Opens(o))
  <1>1. PICK sel \in Candidates :
          Selected(sel) /\ work.target = None /\ ~Settled(work, sel) /\ Begin(work, sel)
    BY DEF BeginTransition
  <1>2. TypeOK /\ work \in Statuses /\ sel \in Releases /\ rec.pc = "act"
    BY <1>1, CandidatesTyped, CandidatesActing, WorkRecord DEF IInv
  <1>3. PICK o \in Statuses :
            /\ Answers(o) /\ ~o.ready
            /\ \/ SameRecord(o, work)
               \/ /\ o.current = work.current /\ o.target = sel /\ o.phase = "preflight"
                  /\ o.transitionID = work.transitionID + 1
                  /\ o.mayHaveRun = IF work.mayHaveRun = "unknown" THEN "no" ELSE work.mayHaveRun
                  /\ work.current # None => MayFollow(work.current, sel)
    BY <1>1, <1>2, BeginRecord
  <1>4. Paused => sel = work.current
    BY <1>1, <1>2 DEF Candidates
  <1>5. PauseRequested => MayCancel
    BY <1>1 DEF Selected
  <1>6. CASE SameRecord(o, work)
    BY <1>2, <1>3, <1>5, <1>6, WorkRecord DEF Stays, GivesUp
  <1>7. CASE ~SameRecord(o, work)
    <2>1. PauseRequested => o.mayHaveRun = rec.status.mayHaveRun
      BY <1>2, <1>3, <1>5, <1>7, WorkRecord DEF MayCancel
    <2>2. Opens(o)
      BY <1>1, <1>2, <1>3, <1>4, <1>5, <1>7, <2>1, WorkRecord DEF Opens
    <2> QED
      BY <1>3, <2>2
  <1> QED
    BY <1>6, <1>7

LEMMA RestartedRecord ==
  ASSUME TypeOK, NEW s \in Statuses
  PROVE  /\ Restarted(s) \in Statuses
         /\ Restarted(s).current = s.current /\ Restarted(s).target = s.target
         /\ Restarted(s).phase = "preflight" /\ Restarted(s).transitionHash = hash
         /\ Restarted(s).transitionID = s.transitionID + 1
         /\ Restarted(s).mayHaveRun = s.mayHaveRun /\ ~Restarted(s).ready
  BY RestartedTyped, ZenonT(60) DEF Restarted, Statuses

LEMMA RebaseOutcome ==
  ASSUME IInv, Rebase
  PROVE  \E o \in Statuses : Answers(o) /\ (Stays(o) \/ Rebases(o))
  <1>1. PICK sel \in Candidates :
          /\ Continues(sel) /\ rec.status.transitionHash # hash
          /\ Block(rec.status) \/ Reply(Restarted(rec.status))
    BY DEF Rebase
  <1>2. TypeOK /\ rec.status \in Statuses /\ work.target # None
    BY <1>1 DEF Continues, IInv, TypeOK
  <1>3. ~PauseRequested /\ rec.status.target # None
    BY <1>2, WorkRecord
  <1>4. CASE Block(rec.status)
    BY <1>2, <1>4, BlockRecord DEF Stays
  <1>5. CASE Reply(Restarted(rec.status))
    <2> DEFINE o == Restarted(rec.status)
    <2>1. Answers(o)
      BY <1>5 DEF Reply, Answers
    <2>2. o \in Statuses /\ Rebases(o)
      BY <1>1, <1>2, <1>3, RestartedRecord DEF Rebases
    <2> QED
      BY <2>1, <2>2
  <1> QED
    BY <1>1, <1>4, <1>5

LEMMA MaintainOutcome ==
  ASSUME IInv, Maintain
  PROVE  \E o \in Statuses : Answers(o) /\ Settles(o) /\ Writes
  <1>1. PICK sel \in Candidates :
          /\ Selected(sel) /\ work.target = None /\ Settled(work, sel)
          /\ analyzer' = Applied(sel, hash, 1)
          /\ Proceed(work) \/ Block(work)
    BY DEF Maintain
  <1>2. TypeOK /\ work \in Statuses /\ sel \in Releases /\ sel = work.current
        /\ work.phase = "complete" /\ sel # None
    BY <1>1, CandidatesTyped, WorkRecord, ReleaseAssumption DEF IInv, Settled
  <1>3. PICK o \in Statuses : Answers(o) /\ SameRecord(o, work)
    BY <1>1, <1>2, ProceedRecord, BlockRecord
  <1>4. Settles(o)
    BY <1>1, <1>2, <1>3 DEF Settles, Selected
  <1>5. Writes
    BY <1>1, <1>2 DEF Writes, Maintain, Selected, jobVars
  <1> QED
    BY <1>3, <1>4, <1>5

-----------------------------------------------------------------------------
(* The phases.                                                             *)
LEMMA PassRecord ==
  ASSUME TypeOK, NEW s \in Statuses, NEW sel \in Releases, Proceed(NextPhase(s, sel))
  PROVE  \E o \in Statuses :
            /\ Answers(o) /\ o.phase = PhaseAfter(s, sel) /\ (o.ready => o.phase = "complete")
            /\ o.current = s.current /\ o.target = s.target
            /\ o.transitionHash = s.transitionHash /\ o.transitionID = s.transitionID
            /\ o.mayHaveRun = IF o.phase = "migration" THEN "yes" ELSE s.mayHaveRun
  <1> DEFINE next == NextPhase(s, sel)
             digest == IF PhaseAfter(s, sel) = "migration" /\ s.mayHaveRun = "no"
                       THEN sel ELSE s.migrationDigest
             ran == IF PhaseAfter(s, sel) = "migration" THEN "yes" ELSE s.mayHaveRun
  <1>1. next \in Statuses /\ next.phase = PhaseAfter(s, sel)
    BY NextPhaseTyped
  <1>2. next = [s EXCEPT !.phase = PhaseAfter(s, sel), !.attempt = 0,
                         !.migrationDigest = digest, !.mayHaveRun = ran]
    BY DEF NextPhase
  <1>3. PICK o \in Statuses : /\ Answers(o) /\ SameRecord(o, next)
                              /\ o.ready => next.phase = "complete"
    BY <1>1, ProceedRecord
  <1> HIDE DEF digest, ran
  <1>4. /\ next.current = s.current /\ next.target = s.target
        /\ next.transitionHash = s.transitionHash /\ next.transitionID = s.transitionID
        /\ next.mayHaveRun = ran
    BY <1>2, ZenonT(60) DEF Statuses
  <1> HIDE DEF next
  <1> QED
    BY <1>1, <1>3, <1>4 DEF SameRecord, ran

\* What advances is the stored target, under the configuration as it is.
LEMMA AdvanceRecord ==
  ASSUME IInv, NEW sel \in Candidates, Advances(sel)
  PROVE  /\ TypeOK /\ rec.status \in Statuses /\ sel \in Releases /\ sel # None
         /\ rec.status.target = sel /\ ~PauseRequested /\ rec.status.transitionHash = hash
  <1>1. TypeOK /\ rec.status \in Statuses /\ sel \in Releases /\ rec.status.target = sel
    BY AdvanceWorks DEF IInv
  <1>2. work.target # None
    BY DEF Advances, Continues
  <1> QED
    BY <1>1, <1>2, WorkRecord, ReleaseAssumption DEF Advances

LEMMA LookForJobOutcome ==
  ASSUME IInv, LookForJob
  PROVE  (\E o \in Statuses : Answers(o) /\ Stays(o) /\ Writes) \/ Looks
  <1>1. PICK sel \in Candidates : Advances(sel)
    BY DEF LookForJob
  <1>2. rec.pc = "act" /\ rec.status \in Statuses /\ UNCHANGED <<analyzer, jobRunning>>
    BY <1>1, AdvanceWorks DEF LookForJob, clusterVars, analyzerVars, jobVars
  <1>3. CASE Block(rec.status)
    BY <1>2, <1>3, BlockRecord DEF Stays, Writes
  <1>4. CASE rec' = [rec EXCEPT !.pc = "job"]
    BY <1>2, <1>4 DEF Looks
  <1> QED
    BY <1>3, <1>4 DEF LookForJob

LEMMA RunJobOutcome ==
  ASSUME IInv, RunJob
  PROVE  \E o \in Statuses : Answers(o) /\ (Stays(o) \/ Passes(o)) /\ Writes
  <1>1. /\ rec.pc = "job" /\ analyzer' = analyzer
        /\ \A n \in jobRunning' \ jobRunning : n = Name
    BY DEF RunJob, StartJob, AwaitJob, PassJob, RetryJob, analyzerVars
  <1>2. /\ TypeOK /\ rec.status \in Statuses /\ rec.status.target \in Releases
        /\ rec.status.phase \in JobPhases /\ ~PauseRequested
    BY <1>1, JobWorks DEF IInv, Looked
  <1>3. \A n \in jobRunning' \ jobRunning : n.transitionID = rec.status.transitionID
    BY <1>1 DEF Name, JobName
  <1>4. Writes
    BY <1>1, <1>3 DEF Writes
  <1>5. CASE StartJob \/ AwaitJob
    <2>1. Proceed(rec.status)
      BY <1>5 DEF StartJob, AwaitJob
    <2>2. PICK o \in Statuses : Answers(o) /\ SameRecord(o, rec.status) /\ ~o.ready
      BY <1>2, <2>1, ProceedRecord DEF JobPhases
    <2> QED
      BY <1>4, <2>2 DEF Stays
  <1>6. CASE RetryJob
    <2>1. Retried(rec.status) \in Statuses /\ SameRecord(Retried(rec.status), rec.status)
      <3>1. Retried(rec.status) \in Statuses
        BY <1>2, RetriedTyped
      <3>2. \/ Retried(rec.status) = rec.status
            \/ Retried(rec.status) = [rec.status EXCEPT !.retryAt = "waiting"]
            \/ Retried(rec.status) = [rec.status EXCEPT !.attempt = @ + 1, !.retryAt = "none"]
        BY DEF Retried
      <3> QED
        BY <1>2, <3>1, <3>2, ZenonT(60) DEF Statuses, SameRecord
    <2>2. PICK o \in Statuses : /\ Answers(o) /\ SameRecord(o, Retried(rec.status)) /\ ~o.ready
      BY <1>6, <2>1, BlockRecord DEF RetryJob
    <2> QED
      BY <1>4, <2>1, <2>2 DEF Stays, SameRecord
  <1>7. CASE PassJob
    <2> DEFINE s == rec.status
    <2>1. Proceed(NextPhase(s, s.target)) /\ Name \in jobComplete
      BY <1>7 DEF PassJob
    <2>2. PICK o \in Statuses :
            /\ Answers(o) /\ o.phase = PhaseAfter(s, s.target)
            /\ o.ready => o.phase = "complete"
            /\ o.current = s.current /\ o.target = s.target
            /\ o.transitionHash = s.transitionHash
            /\ o.transitionID = s.transitionID
            /\ o.mayHaveRun = IF o.phase = "migration" THEN "yes" ELSE s.mayHaveRun
      BY <1>2, <2>1, PassRecord
    <2>3. Passes(o)
      BY <1>2, <2>1, <2>2 DEF Passes, JobPhases
    <2> QED
      BY <1>4, <2>2, <2>3
  <1> QED
    BY <1>1, <1>5, <1>6, <1>7 DEF RunJob

LEMMA NextPhaseOutcome ==
  ASSUME IInv, NEW sel \in Candidates, Advances(sel), Proceed(NextPhase(rec.status, sel)),
         rec.status.phase \in {"quiesce", "rollout", "supervisor"},
         rec.status.phase = "quiesce" => serving = {},
         rec.status.phase = "rollout" => Scales(1)
  PROVE  \E o \in Statuses : Answers(o) /\ Passes(o)
  <1>1. /\ TypeOK /\ rec.status \in Statuses /\ sel \in Releases /\ rec.status.target = sel
        /\ ~PauseRequested /\ rec.status.transitionHash = hash
    BY AdvanceRecord
  <1>2. PICK o \in Statuses :
          /\ Answers(o) /\ o.phase = PhaseAfter(rec.status, sel)
          /\ o.ready => o.phase = "complete"
          /\ o.current = rec.status.current /\ o.target = rec.status.target
          /\ o.transitionHash = rec.status.transitionHash
          /\ o.transitionID = rec.status.transitionID
          /\ o.mayHaveRun = IF o.phase = "migration" THEN "yes" ELSE rec.status.mayHaveRun
    BY <1>1, PassRecord
  <1> QED
    BY <1>1, <1>2 DEF Passes, JobPhases

LEMMA WaitOutcome ==
  ASSUME IInv, Proceed(rec.status) \/ Block(rec.status), rec.status.phase # "complete"
  PROVE  \E o \in Statuses : Answers(o) /\ Stays(o)
  BY BlockRecord, ProceedRecord DEF Stays, IInv, TypeOK

LEMMA DeploymentPhaseOutcome ==
  ASSUME IInv, NEW sel \in Candidates, Quiesce(sel) \/ Rollout(sel) \/ UpdateSupervisor(sel)
  PROVE  \E o \in Statuses : Answers(o) /\ (Stays(o) \/ Passes(o)) /\ Writes
  <1>1. Advances(sel) /\ jobRunning' = jobRunning
        /\ rec.status.phase \in {"quiesce", "rollout", "supervisor"}
    BY DEF Quiesce, Rollout, UpdateSupervisor, jobVars
  <1>2. /\ TypeOK /\ sel \in Releases /\ sel # None /\ rec.status.target = sel
        /\ ~PauseRequested /\ rec.status.transitionHash = hash
    BY <1>1, AdvanceRecord
  <1>3. /\ rec.status.phase = "quiesce" => analyzer' = analyzer \/ Scales(0)
        /\ rec.status.phase = "rollout" => Scales(1)
        /\ rec.status.phase = "supervisor" => analyzer' = analyzer
    BY <1>2 DEF Quiesce, Rollout, UpdateSupervisor, Scales
  <1>4. Writes
    BY <1>1, <1>3 DEF Writes
  <1>5. \/ Proceed(rec.status) \/ Block(rec.status)
        \/ /\ Proceed(NextPhase(rec.status, sel))
           /\ rec.status.phase = "quiesce" => serving = {}
    BY <1>1 DEF Quiesce, Rollout, UpdateSupervisor
  <1> QED
    BY <1>1, <1>3, <1>4, <1>5, NextPhaseOutcome, WaitOutcome

LEMMA CompleteOutcome ==
  ASSUME IInv, NEW sel \in Candidates, Complete(sel)
  PROVE  \E o \in Statuses : Answers(o) /\ Completes(o) /\ Writes
  <1>1. Advances(sel) /\ rec.status.phase = "complete" /\ UNCHANGED <<jobRunning, analyzer>>
    BY DEF Complete, jobVars
  <1>2. /\ TypeOK /\ rec.status \in Statuses /\ sel \in Releases /\ rec.status.target = sel
        /\ sel # None /\ ~PauseRequested /\ rec.status.transitionHash = hash /\ hash \in Hashes
    BY <1>1, AdvanceRecord, HashTyped
  <1> DEFINE s == [rec.status EXCEPT !.current = sel, !.configurationHash = hash,
                      !.target = None, !.attempt = 0, !.mayHaveRun = "no",
                      !.migrationDigest = None]
  <1>3. /\ s \in Statuses /\ s.phase = "complete" /\ s.current = sel /\ s.target = None
        /\ s.configurationHash = hash /\ s.mayHaveRun = "no"
        /\ s.transitionID = rec.status.transitionID
    BY <1>1, <1>2, ZenonT(60) DEF Statuses
  <1>4. Proceed(s)
    BY DEF Complete
  <1> HIDE DEF s
  <1>5. PICK o \in Statuses : Answers(o) /\ SameRecord(o, s)
    BY <1>3, <1>4, ProceedRecord
  <1>6. Completes(o)
    BY <1>1, <1>2, <1>3, <1>5 DEF Completes, SameRecord
  <1>7. Writes
    BY <1>1 DEF Writes
  <1> QED
    BY <1>5, <1>6, <1>7

\* What a pass that acts has decided and written.
LEMMA PassOutcome ==
  ASSUME IInv, Reconcile
  PROVE  /\ (\E o \in Statuses : Answers(o) /\ Outcome(o) /\ Writes) \/ Looks
         /\ rec.pc \in {"act", "job"}
         /\ UNCHANGED <<policyVars, status, db, serving, running, checked, old, boundVars,
                        jobComplete, jobFailed>>
  <1>1. CASE HoldPause \/ CatalogFails \/ DigestChanged \/ ReplaceTarget \/ BeginTransition
             \/ Rebase
    <2>1. PICK o \in Statuses : /\ Answers(o)
                                /\ Stays(o) \/ GivesUp(o) \/ Opens(o) \/ Drops(o) \/ Rebases(o)
      BY <1>1, StopOutcome, DigestChangedOutcome, ReplaceTargetOutcome,
         BeginTransitionOutcome, RebaseOutcome
    <2>2. UNCHANGED <<policyVars, status, clusterVars, historyVars, boundVars>>
      BY <1>1 DEF HoldPause, CatalogFails, DigestChanged, ReplaceTarget, BeginTransition, Rebase
    <2>3. rec.pc = "act"
      BY <1>1, CandidatesActing
      DEF HoldPause, CatalogFails, DigestChanged, ReplaceTarget, BeginTransition, Rebase
    <2> QED
      BY <2>1, <2>2, <2>3
      DEF Outcome, Writes, clusterVars, jobVars, analyzerVars, supervisorVars, historyVars
  <1>2. CASE Maintain
    <2>1. UNCHANGED <<policyVars, status, db, serving, running, historyVars, boundVars,
                      jobComplete, jobFailed>>
      BY <1>2 DEF Maintain, jobVars, supervisorVars
    <2>2. rec.pc = "act"
      BY <1>2, CandidatesActing DEF Maintain
    <2> QED
      BY <1>2, <2>1, <2>2, MaintainOutcome DEF Outcome, historyVars
  <1>3. CASE LookForJob
    <2>1. rec.pc = "act"
      BY <1>3, CandidatesActing DEF LookForJob
    <2> QED
      BY <1>3, <2>1, LookForJobOutcome
      DEF Outcome, LookForJob, clusterVars, jobVars, analyzerVars, supervisorVars
  <1>4. CASE RunJob
    <2>1. /\ rec.pc = "job"
          /\ UNCHANGED <<policyVars, status, db, serving, running, historyVars, boundVars,
                         jobComplete, jobFailed>>
      BY <1>4 DEF RunJob, analyzerVars, supervisorVars
    <2> QED
      BY <1>4, <2>1, RunJobOutcome DEF Outcome, historyVars
  <1>5. CASE Advance
    <2>1. PICK sel \in Candidates :
            Quiesce(sel) \/ Rollout(sel) \/ UpdateSupervisor(sel) \/ Complete(sel)
      BY <1>5 DEF Advance
    <2>2. UNCHANGED <<policyVars, status, db, serving, running, historyVars, boundVars>>
      BY <1>5 DEF Advance
    <2>3. UNCHANGED <<jobComplete, jobFailed>> /\ rec.pc = "act"
      BY <2>1, CandidatesActing DEF Quiesce, Rollout, UpdateSupervisor, Complete, jobVars
    <2>4. \E o \in Statuses : Answers(o) /\ Outcome(o) /\ Writes
      BY <2>1, DeploymentPhaseOutcome, CompleteOutcome DEF Outcome
    <2> QED
      BY <2>2, <2>3, <2>4 DEF historyVars
  <1> QED
    BY <1>1, <1>2, <1>3, <1>4, <1>5 DEF Reconcile

-----------------------------------------------------------------------------
(* The invariant.                                                          *)

\* A migration may have run for s, as Crossed says of the stored status.
Beyond(s) == s.mayHaveRun = "yes" \/ (s.mayHaveRun = "unknown" /\ s.target # None)

\* A pass works with the stored record; a spec listed with the version that is
\* still current is the current one.
Mirror == rec.pc \in {"act", "job", "commit"} => SameRecord(rec.status, status)
FreshList == (rec.pc \in {"act", "job", "commit"} /\ rec.fresh) => rec.spec = spec

\* What a status says about the schema: it is never below that of the installed
\* release, and the same until the boundary is crossed; a transition leaves its
\* preflight, and its migration, only with a schema that fits.
Accepts(r) == db \in SchemaFrom[r] \cup {SchemaTo[r]}
OnSchema(s) ==
    /\ s.current # None => SchemaTo[s.current] <= db
    /\ (s.current # None /\ ~Beyond(s)) => db = SchemaTo[s.current]
    /\ (s.target # None /\ s.phase = "quiesce") => Accepts(s.target)
    /\ (s.target # None /\ s.phase \in {"rollout", "verify", "supervisor", "complete"})
          => db = SchemaTo[s.target]
    /\ (s.target = None /\ s.phase = "complete") => s.mayHaveRun # "yes"

Provenance(s) == (s.target # None /\ s.current # None) => MayFollow(s.current, s.target)

\* No Job belongs to a transition to come, and what the Jobs of the present one
\* found still holds.
JobsKnown == \A n \in Jobs : n.transitionID <= status.transitionID
Results ==
    status.target # None =>
        \A n \in jobComplete :
            (n.release = status.target /\ n.transitionID = status.transitionID) =>
                /\ n.phase = "preflight" => Accepts(n.release)
                /\ n.phase = "migration" => db = SchemaTo[n.release]

\* The ways from the status s to the outcome o, as Transition has them: the
\* same place, another target, no target, across the boundary, installed.
Moves(s, o) ==
    \/ o.current = s.current /\ o.target = s.target /\ Beyond(o) = Beyond(s)
    \/ /\ o.current = s.current /\ o.target \in Releases /\ o.target # s.target
       /\ Beyond(o) = Beyond(s)
       /\ s.current # None => MayFollow(s.current, o.target)
       /\ (s.target # None /\ Beyond(s)) => MayFollow(s.target, o.target)
    \/ o.current = s.current /\ s.target # None /\ o.target = None /\ Beyond(o) = Beyond(s)
    \/ /\ o.current = s.current /\ o.target = s.target /\ s.target \notin {None, s.current}
       /\ ~Beyond(s) /\ Beyond(o) /\ o.phase = "migration"
    \/ /\ s.target # None /\ db = SchemaTo[s.target] /\ o.current = s.target
       /\ o.target = None /\ ~Beyond(o)

\* Checks are those of one target and configuration, or begin anew.
Renews(s, o) ==
    \/ /\ o.transitionID = s.transitionID
       /\ \/ o.target = None
          \/ /\ o.target = s.target /\ o.transitionHash = s.transitionHash
             /\ o.current = s.current
             /\ o.phase = "preflight" => s.phase = "preflight"
    \/ /\ o.transitionID > s.transitionID /\ o.phase = "preflight" /\ o.target # None
       /\ s.phase # "preflight" \/ o.target # s.target \/ o.transitionHash # s.transitionHash

TargetRule(s, o) ==
    (s.target # None /\ o.target \notin {None, s.target} /\ s.mayHaveRun # "no") =>
        \/ Version[o.target] >= Version[s.target]
        \/ s.migrationDigest = s.target /\ RollbackAllowed(s.target, o.target)
PauseRule(s, o) ==
    rec.spec.paused =>
        /\ o.target \in {s.target, s.current, None}
        /\ (s.target \notin {None, s.current} /\ s.mayHaveRun # "no") =>
              o.target = s.target /\ o.phase = s.phase
Decided(s, o) ==
    OnSchema(o) /\ Moves(s, o) /\ Renews(s, o) /\ TargetRule(s, o) /\ PauseRule(s, o)

\* The Deployment runs no release on another's schema; one Pod at a time.
TemplateFits == analyzer.replicas # 0 => db = SchemaTo[analyzer.release]
Lone == \A p, q \in serving : p = q

TInv ==
    /\ Mirror /\ FreshList
    /\ OnSchema(status) /\ Provenance(status) /\ JobsKnown /\ Results
    /\ TemplateFits /\ Lone /\ SchemaServed
    /\ rec.pc = "commit" => Decided(status, rec.out)

-----------------------------------------------------------------------------
(* What a pass decides keeps the rules.                                    *)
LEMMA SameRules ==
  ASSUME NEW s, NEW t, SameRecord(s, t)
  PROVE  /\ OnSchema(s) <=> OnSchema(t)
         /\ Provenance(s) <=> Provenance(t)
         /\ Beyond(s) <=> Beyond(t)
         /\ \A o : Decided(s, o) <=> Decided(t, o)
  BY DEF SameRecord, OnSchema, Beyond, Provenance, Decided, Moves, Renews, TargetRule, PauseRule

\* The fields of a status the rules compare.
LEMMA StatusFields ==
  ASSUME NEW s \in Statuses
  PROVE  /\ s.current \in Releases \cup {None} /\ s.target \in Releases \cup {None}
         /\ s.transitionID \in Nat /\ s.mayHaveRun \in {"unknown", "no", "yes"}
  BY DEF Statuses

LEMMA OutcomeOnSchema ==
  ASSUME IInv, TInv, rec.pc \in {"act", "job", "commit"}, NEW o \in Statuses, Outcome(o)
  PROVE  OnSchema(o)
  <1> DEFINE s == rec.status
  <1>1. /\ TypeOK /\ s \in Statuses /\ SameRecord(s, status) /\ OnSchema(s)
        /\ db \in Nat
    BY SameRules DEF IInv, TInv, Mirror, TypeOK
  <1>2. /\ s.current \in Releases \cup {None} /\ s.target \in Releases \cup {None}
        /\ s.mayHaveRun \in {"unknown", "no", "yes"}
    BY <1>1, StatusFields
  <1>3. CASE Stays(o)
    BY <1>1, <1>3, SameRules DEF Stays
  <1>4. CASE GivesUp(o) \/ Settles(o)
    <2>1. CASE PauseRequested
      BY <1>1, <1>4, <2>1, WorkRecord
      DEF GivesUp, Settles, MayCancel, SameRecord, OnSchema, Beyond
    <2>2. CASE ~PauseRequested
      BY <1>1, <1>4, <2>2, WorkRecord, SameRules DEF GivesUp, Settles
    <2> QED
      BY <2>1, <2>2
  <1>5. CASE Opens(o) \/ Drops(o) \/ Rebases(o)
    BY <1>1, <1>2, <1>5, ReleaseAssumption
    DEF Opens, Drops, Rebases, OnSchema, Beyond, MayCancel, PauseRequested
  <1>6. CASE Passes(o)
    <2>1. /\ s.target \in Releases /\ o.target = s.target /\ o.current = s.current
          /\ o.phase = PhaseAfter(s, s.target) /\ s.target # None
          /\ ~Beyond(o) => ~Beyond(s)
      BY <1>6, ReleaseAssumption DEF Passes, Beyond
    <2>2. o.phase = "quiesce" => Accepts(s.target)
      <3>1. SUFFICES ASSUME o.phase = "quiesce" PROVE Accepts(s.target)
        OBVIOUS
      <3>2. s.phase = "preflight"
        BY <1>6, <2>1, <3>1 DEF Passes, PhaseAfter
      <3>3. /\ Name \in jobComplete /\ Name.phase = "preflight"
            /\ Name.release = s.target
            /\ Name.transitionID = s.transitionID
        BY <1>6, <3>2 DEF Passes, JobPhases, Name, JobName
      <3> QED
        BY <1>1, <2>1, <3>3 DEF TInv, Results, SameRecord
    <2>3. o.phase = "rollout" => db = SchemaTo[s.target]
      <3>1. SUFFICES ASSUME o.phase = "rollout" PROVE db = SchemaTo[s.target]
        OBVIOUS
      <3>2. s.phase = "migration" \/ (s.phase = "quiesce" /\ s.target = s.current)
        BY <1>6, <2>1, <3>1 DEF Passes, PhaseAfter
      <3>3. CASE s.phase = "migration"
        <4>1. /\ Name \in jobComplete /\ Name.phase = "migration"
              /\ Name.release = s.target
              /\ Name.transitionID = s.transitionID
          BY <1>6, <3>3 DEF Passes, JobPhases, Name, JobName
        <4> QED
          BY <1>1, <2>1, <4>1 DEF TInv, Results, SameRecord
      <3>4. CASE s.phase = "quiesce" /\ s.target = s.current
        <4>1. SchemaTo[s.target] <= db /\ Accepts(s.target)
          BY <1>1, <2>1, <3>4 DEF OnSchema
        <4>2. SchemaTo[s.target] \in Nat /\ \A v \in SchemaFrom[s.target] : v <= SchemaTo[s.target]
          BY <2>1, ReleaseAssumption, SchemaAssumption
        <4> QED
          BY <1>1, <4>1, <4>2 DEF Accepts
      <3> QED
        BY <3>2, <3>3, <3>4
    <2>4. o.phase \in {"verify", "supervisor", "complete"} => db = SchemaTo[s.target]
      BY <1>1, <1>6, <2>1 DEF Passes, PhaseAfter, OnSchema
    <2> QED
      BY <1>1, <2>1, <2>2, <2>3, <2>4 DEF OnSchema
  <1>7. CASE Completes(o)
    <2>1. s.target # None /\ db = SchemaTo[s.target] /\ SchemaTo[s.target] \in Nat
      BY <1>1, <1>7, ReleaseAssumption DEF Completes, OnSchema
    <2> QED
      BY <1>7, <2>1 DEF Completes, OnSchema, Beyond
  <1> QED
    BY <1>3, <1>4, <1>5, <1>6, <1>7 DEF Outcome

LEMMA OutcomeMoves ==
  ASSUME IInv, TInv, rec.pc \in {"act", "job", "commit"}, NEW o \in Statuses, Outcome(o)
  PROVE  Moves(rec.status, o)
  <1> DEFINE s == rec.status
  <1>1. /\ TypeOK /\ s \in Statuses /\ SameRecord(s, status) /\ OnSchema(s)
    BY SameRules DEF IInv, TInv, Mirror, TypeOK
  <1>2. /\ s.current \in Releases \cup {None} /\ s.target \in Releases \cup {None}
        /\ s.mayHaveRun \in {"unknown", "no", "yes"}
    BY <1>1, StatusFields
  <1>3. CASE Stays(o)
    BY <1>3 DEF Stays, SameRecord, Moves, Beyond
  <1>4. CASE GivesUp(o) \/ Settles(o)
    BY <1>1, <1>2, <1>4, WorkRecord DEF GivesUp, Settles, MayCancel, SameRecord, Moves, Beyond
  <1>5. CASE Opens(o)
    <2>1. /\ o.current = s.current /\ o.target \in Releases /\ o.target # s.target
          /\ s.current # None => MayFollow(s.current, o.target)
      BY <1>5, ReleaseAssumption DEF Opens, PauseRequested
    <2>2. Beyond(o) = Beyond(s)
      BY <1>2, <1>5, ReleaseAssumption DEF Opens, PauseRequested, MayCancel, Beyond
    <2>3. (s.target # None /\ Beyond(s)) => MayFollow(s.target, o.target)
      BY <1>2, <1>5 DEF Opens, PauseRequested, MayCancel, Beyond, MayFollow
    <2> QED
      BY <2>1, <2>2, <2>3 DEF Moves
  <1>6. CASE Drops(o) \/ Rebases(o)
    BY <1>2, <1>6 DEF Drops, Rebases, Moves, Beyond
  <1>7. CASE Passes(o)
    <2>1. /\ o.current = s.current /\ o.target = s.target /\ s.target # None
          /\ o.mayHaveRun = IF o.phase = "migration" THEN "yes" ELSE s.mayHaveRun
      BY <1>7, ReleaseAssumption DEF Passes
    <2>2. o.phase = "migration" => s.target # s.current
      BY <1>7 DEF Passes, PhaseAfter
    <2> QED
      BY <1>2, <2>1, <2>2 DEF Moves, Beyond
  <1>8. CASE Completes(o)
    BY <1>1, <1>8, ReleaseAssumption DEF Completes, OnSchema, Moves, Beyond
  <1> QED
    BY <1>3, <1>4, <1>5, <1>6, <1>7, <1>8 DEF Outcome

LEMMA OutcomeRenews ==
  ASSUME IInv, NEW o \in Statuses, Outcome(o)
  PROVE  Renews(rec.status, o)
  <1> DEFINE s == rec.status
  <1>1. TypeOK /\ s \in Statuses /\ s.transitionID \in Nat
    BY StatusFields DEF IInv, TypeOK
  <1>2. CASE Stays(o) \/ GivesUp(o) \/ Settles(o)
    BY <1>1, <1>2, WorkRecord DEF Stays, GivesUp, Settles, SameRecord, Renews
  <1>3. CASE Opens(o)
    BY <1>1, <1>3, ReleaseAssumption DEF Opens, PauseRequested, Renews
  <1>4. CASE Drops(o) \/ Rebases(o)
    BY <1>1, <1>4 DEF Drops, Rebases, Renews
  <1>5. CASE Passes(o)
    BY <1>5 DEF Passes, PhaseAfter, Renews
  <1>6. CASE Completes(o)
    BY <1>6 DEF Completes, Renews
  <1> QED
    BY <1>2, <1>3, <1>4, <1>5, <1>6 DEF Outcome

LEMMA OutcomePolicy ==
  ASSUME IInv, NEW o \in Statuses, Outcome(o)
  PROVE  TargetRule(rec.status, o) /\ PauseRule(rec.status, o)
  <1> DEFINE s == rec.status
  <1>1. TypeOK /\ s \in Statuses
    BY DEF IInv, TypeOK
  <1>2. CASE Stays(o) \/ GivesUp(o) \/ Settles(o)
    BY <1>1, <1>2, WorkRecord
    DEF Stays, GivesUp, Settles, SameRecord, TargetRule, PauseRule, MayCancel
  <1>3. CASE Opens(o)
    BY <1>3 DEF Opens, PauseRequested, Paused, MayCancel, TargetRule, PauseRule
  <1>4. CASE Drops(o) \/ Rebases(o) \/ Passes(o) \/ Completes(o)
    BY <1>4
    DEF Drops, Rebases, Passes, Completes, PauseRequested, Paused, TargetRule, PauseRule
  <1> QED
    BY <1>2, <1>3, <1>4 DEF Outcome

LEMMA OutcomeDecided ==
  ASSUME IInv, TInv, rec.pc \in {"act", "job", "commit"}, NEW o \in Statuses, Outcome(o)
  PROVE  Decided(status, o)
  <1>1. Decided(rec.status, o)
    BY OutcomeOnSchema, OutcomeMoves, OutcomeRenews, OutcomePolicy DEF Decided
  <1> QED
    BY <1>1, SameRules DEF TInv, Mirror

-----------------------------------------------------------------------------
(* Every step keeps the invariant.                                         *)

\* The schema a template is applied on is the one its release needs.
LEMMA WritesFit ==
  ASSUME IInv, TInv, rec.pc \in {"act", "job"}, Writes, UNCHANGED <<status, db>>
  PROVE  TemplateFits'
  <1> DEFINE s == rec.status
  <1>1. /\ TypeOK /\ s \in Statuses /\ OnSchema(s)
        /\ s.mayHaveRun \in {"unknown", "no", "yes"}
    BY SameRules, StatusFields DEF IInv, TInv, Mirror, TypeOK
  <1>2. ASSUME NEW r, NEW h, NEW n, analyzer' = Applied(r, h, n)
        PROVE  analyzer'.release = r /\ analyzer'.replicas = n
    BY <1>2 DEF Applied
  <1>3. CASE analyzer' = analyzer
    BY <1>3 DEF TInv, TemplateFits
  <1>4. CASE /\ PauseRequested => MayCancel
             /\ work.current # None /\ work.target = None /\ Settled(work, work.current)
             /\ analyzer' = Applied(work.current, hash, 1)
    <2>1. db = SchemaTo[work.current]
      <3>1. CASE PauseRequested
        BY <1>1, <1>4, <3>1, WorkRecord DEF MayCancel, OnSchema, Beyond
      <3>2. CASE ~PauseRequested
        BY <1>1, <1>4, <3>2, WorkRecord DEF Settled, OnSchema, Beyond
      <3> QED
        BY <3>1, <3>2
    <2> QED
      BY <1>2, <1>4, <2>1 DEF TemplateFits
  <1>5. CASE s.phase = "quiesce" /\ Scales(0)
    BY <1>2, <1>5 DEF Scales, TemplateFits
  <1>6. CASE s.phase = "rollout" /\ Scales(1)
    BY <1>1, <1>2, <1>6, ReleaseAssumption DEF Scales, TemplateFits, OnSchema
  <1> QED
    BY <1>3, <1>4, <1>5, <1>6 DEF Writes

\* A pass that ends with an outcome of one of the kinds.
LEMMA ReplyKeepsRules ==
  ASSUME IInv, TInv, rec.pc \in {"act", "job", "commit"},
         NEW o \in Statuses, Answers(o), Outcome(o),
         UNCHANGED <<spec, status, db, serving, jobComplete, jobFailed>>, TemplateFits',
         \A n \in jobRunning' \ jobRunning : n.transitionID = rec.status.transitionID
  PROVE  TInv'
  <1>1. /\ rec'.pc = "commit" /\ rec'.out = o
        /\ rec'.spec = rec.spec /\ rec'.status = rec.status /\ rec'.fresh = rec.fresh
    BY DEF Answers, IInv, TypeOK
  <1>2. Decided(status, o)
    BY OutcomeDecided
  <1>3. Decided(status, rec.out)'
    BY <1>1, <1>2 DEF Decided, OnSchema, Accepts, Beyond, Moves, Renews, TargetRule, PauseRule
  <1>4. Mirror' /\ FreshList'
    BY <1>1 DEF TInv, Mirror, FreshList, SameRecord
  <1>5. OnSchema(status)' /\ Provenance(status)' /\ Results'
    BY DEF TInv, OnSchema, Accepts, Beyond, Provenance, Results
  <1>6. JobsKnown'
    <2>1. status.transitionID \in Nat /\ rec.status.transitionID = status.transitionID
      BY StatusFields DEF IInv, TypeOK, TInv, Mirror, SameRecord
    <2>2. \A n \in Jobs' : n \in Jobs \/ n.transitionID = rec.status.transitionID
      BY DEF Jobs
    <2> QED
      BY <2>1, <2>2 DEF TInv, JobsKnown
  <1>7. Lone' /\ SchemaServed'
    BY DEF TInv, Lone, SchemaServed
  <1> QED
    BY <1>3, <1>4, <1>5, <1>6, <1>7 DEF TInv

\* What a commit stores is what was decided, or nothing.
LEMMA CommitRecord ==
  ASSUME IInv, Commit
  PROVE  /\ IF rec.fresh THEN SameRecord(status', rec.out) /\ status'.ready = rec.out.ready
                         ELSE status' = status
         /\ rec' = Idle /\ UNCHANGED <<policyVars, clusterVars>>
  <1>1. rec.out \in Statuses /\ status \in Statuses
    BY DEF IInv, TypeOK
  <1>2. CASE rec.fresh
    <2> DEFINE at == IF rec.out.retryAt = rec.status.retryAt THEN status.retryAt ELSE rec.out.retryAt
    <2>1. status' = [rec.out EXCEPT !.retryAt = at]
      BY <1>2 DEF Commit, VersionMatches
    <2> HIDE DEF at
    <2> QED
      BY <1>1, <1>2, <2>1 DEF Commit, Statuses, SameRecord
  <1> QED
    BY <1>2 DEF Commit, VersionMatches

LEMMA CommitKeepsRules == ASSUME IInv, TInv, Commit PROVE TInv'
  <1>1. /\ rec' = Idle /\ rec'.pc = "idle" /\ rec.pc = "commit"
        /\ UNCHANGED <<policyVars, db, jobRunning, jobComplete, jobFailed, analyzer, serving>>
    BY CommitRecord DEF Commit, Idle, clusterVars, jobVars, analyzerVars
  <1>2. Mirror' /\ FreshList' /\ TemplateFits' /\ Lone' /\ SchemaServed'
    BY <1>1 DEF TInv, Mirror, FreshList, TemplateFits, Lone, SchemaServed
  <1>3. CASE ~rec.fresh
    <2>1. status' = status
      BY <1>3, CommitRecord
    <2>2. OnSchema(status)' /\ Provenance(status)' /\ Results' /\ JobsKnown'
      BY <1>1, <2>1
      DEF TInv, OnSchema, Accepts, Beyond, Provenance, Results, JobsKnown, Jobs
    <2> QED
      BY <1>1, <1>2, <2>2 DEF TInv
  <1>4. CASE rec.fresh
    <2>1. SameRecord(status', rec.out) /\ Decided(status, rec.out)
      BY <1>1, <1>4, CommitRecord DEF TInv
    <2>2. OnSchema(status')
      BY <2>1, SameRules DEF Decided
    <2>3. OnSchema(status)'
      BY <1>1, <2>2 DEF OnSchema, Accepts, Beyond
    <2>4. Provenance(status)'
      BY <2>1 DEF Decided, Moves, SameRecord, TInv, Provenance
    <2>5. /\ status.transitionID \in Nat /\ status'.transitionID = rec.out.transitionID
          /\ rec.out.transitionID \in Nat
          /\ \A n \in Jobs : n.transitionID \in Nat /\ n.transitionID <= status.transitionID
      BY <2>1, StatusFields DEF IInv, TypeOK, SameRecord, TInv, JobsKnown, Jobs, JobNames
    <2>6. JobsKnown'
      BY <1>1, <2>1, <2>5 DEF Decided, Renews, JobsKnown, Jobs
    <2>7. Results'
      <3>1. CASE /\ rec.out.transitionID = status.transitionID
                 /\ rec.out.target \in {None, status.target}
        BY <1>1, <2>1, <3>1 DEF SameRecord, TInv, Results, Accepts
      <3>2. CASE rec.out.transitionID > status.transitionID
        BY <1>1, <2>5, <3>2 DEF Results, Jobs
      <3> QED
        BY <2>1, <3>1, <3>2 DEF Decided, Renews
    <2> QED
      BY <1>1, <1>2, <2>3, <2>4, <2>6, <2>7 DEF TInv
  <1> QED
    BY <1>3, <1>4

LEMMA ListKeepsRules == ASSUME IInv, TInv, List PROVE TInv'
  <1>1. /\ rec' = [pc |-> "act", spec |-> spec, status |-> status, fresh |-> TRUE,
                   out |-> status, lapsed |-> None]
        /\ UNCHANGED <<spec, status, db, jobRunning, jobComplete, jobFailed, analyzer, serving>>
    BY DEF List, policyVars, clusterVars, jobVars, analyzerVars
  <1>2. Mirror' /\ FreshList' /\ rec'.pc # "commit"
    BY <1>1 DEF Mirror, FreshList, SameRecord
  <1> QED
    BY <1>1, <1>2
    DEF TInv, OnSchema, Accepts, Beyond, Provenance, Results, JobsKnown, Jobs, TemplateFits,
        Lone, SchemaServed

\* Steps that at most end the pass, lose a Job's record or stop a Pod.
LEMMA QuietKeepsRules ==
  ASSUME IInv, TInv, UNCHANGED <<status, db>>,
         \/ rec'.pc \in {"idle", "down"}
         \/ /\ rec'.pc = rec.pc \/ (rec.pc = "act" /\ rec'.pc = "job")
            /\ rec'.spec = rec.spec /\ rec'.status = rec.status /\ rec'.out = rec.out
            /\ rec'.fresh => (rec.fresh /\ spec' = spec),
         Jobs' \subseteq Jobs, jobComplete' \subseteq jobComplete,
         analyzer'.release = analyzer.release, analyzer'.replicas = analyzer.replicas,
         serving' \subseteq serving
  PROVE  TInv'
  <1>1. Mirror' /\ FreshList'
    BY DEF TInv, Mirror, FreshList, SameRecord
  <1>2. (rec'.pc = "commit") => Decided(status, rec.out)'
    BY DEF TInv, Decided, OnSchema, Accepts, Beyond, Moves, Renews, TargetRule, PauseRule
  <1>3. OnSchema(status)' /\ Provenance(status)' /\ Results' /\ JobsKnown'
    BY DEF TInv, OnSchema, Accepts, Beyond, Provenance, Results, JobsKnown
  <1>4. TemplateFits' /\ Lone' /\ SchemaServed'
    BY DEF TInv, TemplateFits, Lone, SchemaServed
  <1> QED
    BY <1>1, <1>2, <1>3, <1>4 DEF TInv

LEMMA PassKeepsRules ==
  ASSUME IInv, TInv, Reconcile \/ Refuse \/ LoseReply PROVE TInv'
  <1>1. CASE Reconcile
    <2>1. /\ rec.pc \in {"act", "job"}
          /\ UNCHANGED <<spec, status, db, serving, jobComplete, jobFailed>>
      BY <1>1, PassOutcome DEF policyVars
    <2>2. CASE \E o \in Statuses : Answers(o) /\ Outcome(o) /\ Writes
      <3>1. PICK o \in Statuses : Answers(o) /\ Outcome(o) /\ Writes
        BY <2>2
      <3>2. TemplateFits'
        BY <2>1, <3>1, WritesFit
      <3> QED
        BY <2>1, <3>1, <3>2, ReplyKeepsRules DEF Writes
    <2>3. CASE Looks
      BY <2>1, <2>3, QuietKeepsRules DEF Looks, Jobs, IInv, TypeOK
    <2> QED
      BY <1>1, <2>2, <2>3, PassOutcome
  <1>2. CASE Refuse \/ LoseReply
    <2>1. PICK o \in Statuses : Answers(o) /\ Outcome(o)
      BY <1>2, StopOutcome DEF Outcome
    <2>2. /\ UNCHANGED <<spec, status, db, serving, jobRunning, jobComplete, jobFailed, analyzer>>
          /\ rec.pc \in {"act", "job", "commit"}
      BY <1>2 DEF Refuse, LoseReply, policyVars, clusterVars, jobVars, analyzerVars
    <2>3. TemplateFits'
      BY <2>2 DEF TInv, TemplateFits
    <2> QED
      BY <2>1, <2>2, <2>3, ReplyKeepsRules
  <1> QED
    BY <1>1, <1>2

LEMMA QuietStepKeepsRules ==
  ASSUME IInv, TInv,
         \/ Crash \/ Restart \/ ReplacePod \/ Operator
         \/ JobFails \/ JobDeleted \/ MigratorExits
         \/ DeploymentObserved \/ PodExits \/ PodAvailable \/ PodFails
  PROVE  TInv'
  <1>1. UNCHANGED <<status, db>>
    BY DEF Crash, Restart, ReplacePod, Operator, EditSpec, EditReferences, EditConfirmation,
           JobFails, JobDeleted, MigratorExits, DeploymentObserved, PodExits, PodAvailable,
           PodFails, clusterVars
  <1>2. \/ rec'.pc \in {"idle", "down"}
        \/ /\ rec'.pc = rec.pc /\ rec'.spec = rec.spec /\ rec'.status = rec.status
           /\ rec'.out = rec.out
           /\ rec'.fresh => (rec.fresh /\ spec' = spec)
    <2>1. CASE Crash \/ Restart \/ ReplacePod
      BY <2>1 DEF Crash, Restart, ReplacePod, Idle
    <2>2. CASE Operator
      BY <2>2 DEF Operator, EditSpec, EditReferences, EditConfirmation, IInv, TypeOK
    <2>3. CASE ~(Crash \/ Restart \/ ReplacePod \/ Operator)
      BY <2>3 DEF JobFails, JobDeleted, MigratorExits, DeploymentObserved,
                  PodExits, PodAvailable, PodFails, policyVars
    <2> QED
      BY <2>1, <2>2, <2>3
  <1>3. Jobs' \subseteq Jobs /\ jobComplete' \subseteq jobComplete
    <2>1. CASE JobFails
      BY <2>1 DEF JobFails, Jobs
    <2>2. CASE JobDeleted
      BY <2>2 DEF JobDeleted, Jobs
    <2>3. CASE ~(JobFails \/ JobDeleted)
      BY <2>3 DEF Crash, Restart, ReplacePod, Operator, EditSpec, EditReferences,
                  EditConfirmation, MigratorExits, DeploymentObserved, PodExits,
                  PodAvailable, PodFails, clusterVars, jobVars, Jobs
    <2> QED
      BY <2>1, <2>2, <2>3
  <1>4. analyzer'.release = analyzer.release /\ analyzer'.replicas = analyzer.replicas
    <2>1. CASE DeploymentObserved \/ PodAvailable \/ PodFails
      <3>1. analyzer \in Deployments \cup {NoDeployment}
        BY DEF IInv, TypeOK
      <3>2. CASE DeploymentObserved
        BY <3>1, <3>2 DEF DeploymentObserved, Deployments, NoDeployment
      <3>3. CASE PodAvailable
        BY <3>1, <3>3 DEF PodAvailable, Deployments, NoDeployment
      <3>4. CASE PodFails
        BY <3>1, <3>4 DEF PodFails, Deployments, NoDeployment
      <3> QED
        BY <2>1, <3>2, <3>3, <3>4
    <2>2. CASE ~(DeploymentObserved \/ PodAvailable \/ PodFails)
      BY <2>2 DEF Crash, Restart, ReplacePod, Operator, EditSpec, EditReferences,
                  EditConfirmation, JobFails, JobDeleted, MigratorExits, PodExits,
                  clusterVars, analyzerVars
    <2> QED
      BY <2>1, <2>2
  <1>5. serving' \subseteq serving
    BY DEF Crash, Restart, ReplacePod, Operator, EditSpec, EditReferences, EditConfirmation,
           JobFails, JobDeleted, MigratorExits, DeploymentObserved, PodExits, PodAvailable,
           PodFails, clusterVars, analyzerVars
  <1> QED
    BY <1>1, <1>2, <1>3, <1>4, <1>5, QuietKeepsRules

LEMMA RetryRecord ==
  ASSUME IInv, RetryElapses
  PROVE  /\ SameRecord(status', status) /\ status'.ready = status.ready
         /\ UNCHANGED <<policyVars, rec, clusterVars, historyVars, boundVars>>
  <1>1. status \in Statuses /\ status' = [status EXCEPT !.retryAt = "due"]
    BY DEF RetryElapses, IInv, TypeOK
  <1> QED
    BY <1>1 DEF RetryElapses, Statuses, SameRecord

LEMMA RetryElapsesKeepsRules == ASSUME IInv, TInv, RetryElapses PROVE TInv'
  <1>1. /\ SameRecord(status', status)
        /\ UNCHANGED <<spec, rec, db, jobRunning, jobComplete, jobFailed, analyzer, serving>>
    BY RetryRecord DEF policyVars, clusterVars, jobVars, analyzerVars
  <1>2. /\ OnSchema(status') /\ Provenance(status')
        /\ rec.pc = "commit" => Decided(status', rec.out)
    BY <1>1, SameRules DEF TInv
  <1>3. OnSchema(status)' /\ Provenance(status)' /\ (rec'.pc = "commit" => Decided(status, rec.out)')
    BY <1>1, <1>2
    DEF OnSchema, Accepts, Beyond, Provenance, Decided, Moves, Renews, TargetRule, PauseRule
  <1>4. Mirror' /\ FreshList' /\ JobsKnown' /\ Results'
    BY <1>1 DEF TInv, Mirror, FreshList, SameRecord, JobsKnown, Jobs, Results, Accepts
  <1>5. TemplateFits' /\ Lone' /\ SchemaServed'
    BY <1>1 DEF TInv, TemplateFits, Lone, SchemaServed
  <1> QED
    BY <1>3, <1>4, <1>5 DEF TInv

\* A Pod starts from the template, which fits.
LEMMA PodStartsKeepsRules == ASSUME IInv, TInv, PodStarts PROVE TInv'
  <1>1. /\ serving' = Wanted /\ Wanted # {}
        /\ UNCHANGED <<spec, status, rec, db, jobRunning, jobComplete, jobFailed, analyzer>>
    BY DEF PodStarts, policyVars, jobVars
  <1>2. \A p \in serving' : p = [release |-> analyzer.release, hash |-> analyzer.hash]
    BY <1>1 DEF Wanted
  <1>3. Lone' /\ SchemaServed'
    BY <1>1, <1>2 DEF Lone, SchemaServed, TInv, TemplateFits, Wanted
  <1> QED
    BY <1>1, <1>3
    DEF TInv, Mirror, FreshList, SameRecord, OnSchema, Accepts, Beyond, Provenance, JobsKnown,
        Jobs, Results, TemplateFits, Decided, Moves, Renews, TargetRule, PauseRule

LEMMA JobCompletesKeepsRules == ASSUME IInv, TInv, JobCompletes PROVE TInv'
  <1>1. PICK n \in jobRunning :
          /\ SchemaAccepted(n)
          /\ jobRunning' = jobRunning \ {n} /\ jobComplete' = jobComplete \cup {n}
    BY DEF JobCompletes
  <1>2. UNCHANGED <<spec, status, rec, db, jobFailed, analyzer, serving>>
    BY DEF JobCompletes, policyVars, analyzerVars
  <1>3. JobsKnown'
    BY <1>1, <1>2 DEF TInv, JobsKnown, Jobs
  <1>4. /\ n.phase = "preflight" => Accepts(n.release)
        /\ n.phase = "migration" => db = SchemaTo[n.release]
    BY <1>1 DEF SchemaAccepted, Accepts
  <1>5. Results'
    BY <1>1, <1>2, <1>4 DEF TInv, Results, Accepts
  <1> QED
    BY <1>2, <1>3, <1>5
    DEF TInv, Mirror, FreshList, SameRecord, OnSchema, Accepts, Beyond, Provenance,
        TemplateFits, Lone, SchemaServed, Decided, Moves, Renews, TargetRule, PauseRule

\* The schema moves while nothing is served, and the status as well as the
\* outcome of the pass in progress name the release it moves to.
LEMMA MigrateSchemaKeepsRules == ASSUME IInv, TInv, MigrateSchema PROVE TInv'
  <1>1. PICK n \in migrators : db \in SchemaFrom[n.release] /\ db' = SchemaTo[n.release]
    BY DEF MigrateSchema
  <1>2. UNCHANGED <<spec, status, rec, jobRunning, jobComplete, jobFailed, analyzer, serving>>
    BY DEF MigrateSchema, policyVars, jobVars, analyzerVars
  <1>3. n.release \in Releases /\ n \in Active
    BY DEF IInv, TypeOK, JobNames, Active
  <1>4. db \in Nat /\ db' \in Nat /\ db <= db'
    BY <1>1, <1>3, ReleaseAssumption, SchemaAssumption DEF IInv, TypeOK
  <1>5. ASSUME NEW s \in Statuses, Migrating(s)
        PROVE  /\ s.phase = "migration" /\ s.target = n.release /\ s.mayHaveRun # "no"
               /\ s.target # None /\ Beyond(s) /\ serving = {} /\ analyzer.replicas = 0
    <2>1. s.phase = "migration" /\ s.target \in Releases /\ n = JobName(s, s.target)
          /\ s.mayHaveRun # "no" /\ serving = {} /\ analyzer.replicas = 0
      BY <1>3, <1>5 DEF Migrating, Recorded, Quiesced
    <2> QED
      BY <2>1, StatusFields, ReleaseAssumption DEF JobName, Beyond
  <1>6. ASSUME NEW s \in Statuses, Migrating(s), OnSchema(s)
        PROVE  /\ s.current # None => SchemaTo[s.current] <= db'
               /\ s.phase = "migration" /\ s.target # None /\ Beyond(s)
    <2>1. s.current # None => SchemaTo[s.current] \in Nat
      BY StatusFields, ReleaseAssumption
    <2> QED
      BY <1>4, <1>5, <1>6, <2>1 DEF OnSchema
  <1>7. /\ status \in Statuses /\ Migrating(status) /\ OnSchema(status)
        /\ rec.pc = "commit" => (rec.out \in Statuses /\ Migrating(rec.out) /\ OnSchema(rec.out))
    BY DEF IInv, TypeOK, TInv, Decided
  <1>8. OnSchema(status)' /\ Provenance(status)' /\ JobsKnown' /\ Mirror' /\ FreshList'
    BY <1>2, <1>6, <1>7
    DEF OnSchema, Beyond, TInv, Provenance, JobsKnown, Jobs, Mirror, FreshList, SameRecord
  <1>9. Results'
    BY <1>1, <1>2, <1>5, <1>7 DEF TInv, Results, Accepts
  <1>10. TemplateFits' /\ Lone' /\ SchemaServed'
    BY <1>2, <1>5, <1>7 DEF TemplateFits, Lone, SchemaServed
  <1>11. rec'.pc = "commit" => Decided(status, rec.out)'
    <2> SUFFICES ASSUME rec.pc = "commit" PROVE Decided(status, rec.out)'
      BY <1>2
    <2>1. OnSchema(rec.out)'
      BY <1>2, <1>6, <1>7 DEF OnSchema, Beyond
    <2>2. rec.out.target # None /\ Decided(status, rec.out)
      BY <1>5, <1>7 DEF TInv
    <2> QED
      BY <1>2, <2>1, <2>2 DEF Decided, Moves, Beyond, Renews, TargetRule, PauseRule
  <1> QED
    BY <1>8, <1>9, <1>10, <1>11 DEF TInv

LEMMA InitRules == Init => TInv
  <1> SUFFICES ASSUME Init PROVE TInv
    OBVIOUS
  <1>1. PICK start \in Starts : StartsFrom(start.installed, start.interrupted)
    BY DEF Init
  <1> DEFINE at == start.installed
             to == start.interrupted
  <1>2. /\ at \in Releases \cup {None} /\ to \in Releases \cup {None}
        /\ to # None => /\ at \notin {None, to} /\ MayFollow(at, to)
                        /\ SchemaTo[at] <= SchemaTo[to]
    BY WorldAssumption, SchemaAssumption
  <1>3. StartsFrom(at, to)
    BY <1>1
  <1> HIDE DEF at, to
  <1>4. rec.pc = "idle" /\ Jobs = {} /\ jobComplete = {}
    BY DEF Init, Idle, Jobs
  <1>5. Mirror /\ FreshList /\ JobsKnown /\ Results
    BY <1>4 DEF Mirror, FreshList, JobsKnown, Results
  <1>6. /\ at # None => SchemaTo[at] \in Nat
        /\ to # None => SchemaTo[to] \in Nat
    BY <1>2, ReleaseAssumption
  <1>7. CASE at = None
    <2>1. /\ status.current = None /\ status.target = None /\ status.phase = "none"
          /\ analyzer.replicas = 0 /\ serving = {}
      BY <1>3, <1>7 DEF StartsFrom, EmptyStatus, NoDeployment
    <2> QED
      BY <1>4, <1>5, <2>1 DEF TInv, OnSchema, Provenance, TemplateFits, Lone, SchemaServed
  <1>8. CASE at # None /\ to = None
    <2>1. status = InstalledStatus(at, FirstHash)
      BY <1>3, <1>8 DEF StartsFrom
    <2>2. status.current = at /\ status.target = None /\ status.mayHaveRun = "no"
      BY <2>1 DEF InstalledStatus, EmptyStatus
    <2>3. db = SchemaTo[at] /\ analyzer.release = at
          /\ serving = {[release |-> at, hash |-> FirstHash]}
      BY <1>3, <1>8 DEF StartsFrom
    <2> QED
      BY <1>4, <1>5, <1>6, <1>8, <2>2, <2>3
      DEF TInv, OnSchema, Provenance, TemplateFits, Lone, SchemaServed
  <1>9. CASE at # None /\ to # None
    <2>1. status = InterruptedStatus(at, to, FirstHash)
      BY <1>3, <1>9 DEF StartsFrom
    <2>2. /\ status.current = at /\ status.target = to /\ status.mayHaveRun = "unknown"
          /\ status.phase = "migration"
      BY <2>1, ZenonT(60) DEF InterruptedStatus, InstalledStatus, EmptyStatus
    <2>3. /\ db \in {SchemaTo[at], SchemaTo[to]}
          /\ analyzer.replicas = 0 /\ serving = {}
      BY <1>3, <1>9 DEF StartsFrom
    <2> QED
      BY <1>2, <1>4, <1>5, <1>6, <1>9, <2>2, <2>3
      DEF TInv, OnSchema, Beyond, Provenance, TemplateFits, Lone, SchemaServed
  <1> QED
    BY <1>7, <1>8, <1>9

LEMMA NextKeepsRules == IInv /\ TInv /\ [Next]_vars => TInv'
  <1> SUFFICES ASSUME IInv, TInv, [Next]_vars PROVE TInv'
    OBVIOUS
  <1>1. CASE Process
    BY <1>1, PassKeepsRules, ListKeepsRules, CommitKeepsRules, QuietStepKeepsRules,
       RetryElapsesKeepsRules DEF Process
  <1>2. CASE Faults
    BY <1>2, PassKeepsRules, QuietStepKeepsRules DEF Faults
  <1>3. CASE Operator
    BY <1>3, QuietStepKeepsRules DEF Operator
  <1>4. CASE Workloads
    BY <1>4, QuietStepKeepsRules, PodStartsKeepsRules, JobCompletesKeepsRules,
       MigrateSchemaKeepsRules DEF Workloads
  <1>5. CASE UNCHANGED vars
    BY <1>5, QuietKeepsRules
    DEF vars, policyVars, clusterVars, jobVars, analyzerVars, Jobs
  <1> QED
    BY <1>1, <1>2, <1>3, <1>4, <1>5 DEF Next

LEMMA RulesHold == Spec => [](IInv /\ TInv)
  <1>1. Init => IInv /\ TInv
    BY InitIInv, InitRules
  <1>2. IInv /\ TInv /\ [Next]_vars => (IInv /\ TInv)'
    BY NextKeeps, NextKeepsRules
  <1> QED
    BY <1>1, <1>2, PTL DEF Spec

-----------------------------------------------------------------------------
\* No analyzer Pod runs against a schema other than its release's (phases
\* quiesce to rollout of Advance, maintain), for any releases whose schema
\* revisions rise, and any number of faults, edits and restarts.
THEOREM ServedOnItsSchema == Spec => []SchemaServed
  <1>1. TInv => SchemaServed
    BY DEF TInv
  <1> QED
    BY <1>1, RulesHold, PTL

\* Only a commit changes what the status records.
LEMMA StatusSteps ==
  ASSUME IInv, TInv, [Next]_vars
  PROVE  \/ SameRecord(status', status)
         \/ /\ Commit /\ rec.fresh /\ SameRecord(status', rec.out)
            /\ Decided(status, rec.out) /\ rec.spec = spec
            /\ rec.out \in Statuses /\ Migrating(rec.out)
  <1>1. CASE Commit
    <2>1. CASE rec.fresh
      BY <1>1, <2>1, CommitRecord
      DEF Commit, TInv, FreshList, IInv, TypeOK
    <2>2. CASE ~rec.fresh
      BY <1>1, <2>2, CommitRecord DEF SameRecord
    <2> QED
      BY <2>1, <2>2
  <1>2. CASE RetryElapses
    BY <1>2, RetryRecord
  <1>3. CASE Reconcile
    BY <1>3, PassOutcome DEF SameRecord
  <1>4. CASE ~(Commit \/ RetryElapses \/ Reconcile)
    <2>1. UNCHANGED status
      BY <1>4
      DEF Next, Process, Faults, Operator, Workloads, List, Restart, ReplacePod, Refuse,
          LoseReply, Crash, JobDeleted, PodFails, EditSpec, EditReferences, EditConfirmation,
          MigrateSchema, JobCompletes, JobFails, MigratorExits, DeploymentObserved, PodExits,
          PodStarts, PodAvailable, vars
    <2> QED
      BY <2>1 DEF SameRecord
  <1> QED
    BY <1>1, <1>2, <1>3, <1>4

\* An installed release is followed by a later one or by a rollback it declares
\* (the version check of reconcile), however many passes, crashes and
\* replacements of the target lie between the check and the installation.
THEOREM InstalledMayFollow == Spec => InstalledRollback
  <1> DEFINE Follows == (status.current # None /\ status'.current # status.current)
                           => MayFollow(status.current, status'.current)
  <1>1. IInv /\ TInv /\ [Next]_vars => [Follows]_vars
    <2> SUFFICES ASSUME IInv, TInv, [Next]_vars, status.current # None,
                        status'.current # status.current
                 PROVE  MayFollow(status.current, status'.current)
      OBVIOUS
    <2>1. SameRecord(status', rec.out) /\ Moves(status, rec.out)
      BY StatusSteps DEF SameRecord, Decided
    <2>2. status.target # None /\ status'.current = status.target
      BY <2>1 DEF Moves, SameRecord
    <2> QED
      BY <2>2 DEF TInv, Provenance
  <1> QED
    BY <1>1, RulesHold, PTL DEF Spec, InstalledRollback

\* A target that may have migrated gives way to a later release or to a
\* rollback its own manifest declares (the check before a target is replaced).
THEOREM TargetMayGiveWay == Spec => TargetRollback
  <1> DEFINE Follows ==
        (/\ status.target # None /\ status'.target \notin {None, status.target}
         /\ status.mayHaveRun # "no")
           => \/ Version[status'.target] >= Version[status.target]
              \/ /\ status.migrationDigest = status.target
                 /\ RollbackAllowed(status.target, status'.target)
  <1>1. IInv /\ TInv /\ [Next]_vars => [Follows]_vars
    <2> SUFFICES ASSUME IInv, TInv, [Next]_vars PROVE Follows
      OBVIOUS
    <2>1. CASE SameRecord(status', status)
      BY <2>1 DEF SameRecord
    <2>2. CASE SameRecord(status', rec.out) /\ TargetRule(status, rec.out)
      BY <2>2 DEF SameRecord, TargetRule
    <2> QED
      BY <2>1, <2>2, StatusSteps DEF Decided
  <1> QED
    BY <1>1, RulesHold, PTL DEF Spec, TargetRollback

\* A pause that stands when a status is written, and not only when its pass
\* began, stops the release: the resourceVersion of the patch sees to it.
THEOREM PauseStopsRelease == Spec => PauseHolds
  <1> DEFINE Held ==
        spec.paused =>
          /\ status'.target \in {status.target, status.current, None}
          /\ (status.target \notin {None, status.current} /\ status.mayHaveRun # "no")
                => status'.target = status.target /\ status'.phase = status.phase
  <1>1. IInv /\ TInv /\ [Next]_vars => [Held]_vars
    <2> SUFFICES ASSUME IInv, TInv, [Next]_vars PROVE Held
      OBVIOUS
    <2>1. CASE SameRecord(status', status)
      BY <2>1 DEF SameRecord
    <2>2. CASE SameRecord(status', rec.out) /\ PauseRule(status, rec.out) /\ rec.spec = spec
      BY <2>2 DEF SameRecord, PauseRule
    <2> QED
      BY <2>1, <2>2, StatusSteps DEF Decided
  <1> QED
    BY <1>1, RulesHold, PTL DEF Spec, PauseHolds

\* A Job of a guarded migration is vouched for, and so is the one that a pass
\* is about to create.
Vouching ==
    /\ ConfirmedMigration
    /\ (rec.pc = "job" /\ rec.status.phase = "migration" /\ rec.status.target \in Guarded)
         => Name \in vouched

LEMMA NextKeepsVouching == IInv /\ Vouching /\ [Next]_vars => Vouching'
  <1> SUFFICES ASSUME IInv, Vouching, [Next]_vars PROVE Vouching'
    OBVIOUS
  <1>1. ASSUME Jobs' \subseteq Jobs, UNCHANGED vouched,
               rec'.pc = "job" => rec.pc = "job" /\ rec'.status = rec.status
        PROVE  Vouching'
    BY <1>1 DEF Vouching, ConfirmedMigration, Name, JobName
  <1>2. CASE LookForJob
    <2>1. UNCHANGED Jobs
      BY <1>2 DEF LookForJob, clusterVars, jobVars, Jobs
    <2>2. Name.phase = rec.status.phase /\ Name.release = rec.status.target
      BY DEF Name, JobName
    <2>3. ConfirmedMigration'
      <3>1. vouched' \in {vouched, vouched \cup {Name}} \/ (Absent /\ vouched' = vouched \ {Name})
        BY <1>2 DEF LookForJob
      <3>2. Absent => Name \notin Jobs
        BY DEF Absent
      <3> QED
        BY <2>1, <3>1, <3>2 DEF Vouching, ConfirmedMigration
    <2>4. ASSUME rec'.pc = "job", rec.status.phase = "migration", rec.status.target \in Guarded
          PROVE  Name \in vouched'
      <3>1. ~MustConfirm
        BY <1>2, <2>4 DEF LookForJob, Block, Reply, IInv, TypeOK
      <3>2. CASE Absent
        BY <1>2, <2>4, <3>1, <3>2 DEF LookForJob, MustConfirm
      <3>3. CASE ~Absent
        <4>1. Name \in Jobs /\ vouched' = vouched
          BY <1>2, <2>4, <3>3 DEF LookForJob, Absent
        <4> QED
          BY <2>2, <2>4, <4>1 DEF Vouching, ConfirmedMigration
      <3> QED
        BY <3>2, <3>3
    <2>5. rec'.status = rec.status
      BY <1>2 DEF LookForJob, Block, Reply, IInv, TypeOK
    <2>6. Name' = Name
      BY <2>5 DEF Name, JobName
    <2> QED
      BY <2>3, <2>4, <2>5, <2>6 DEF Vouching
  <1>3. CASE RunJob
    <2>1. rec.pc = "job" /\ UNCHANGED <<jobComplete, jobFailed, vouched>>
          /\ jobRunning' \subseteq jobRunning \cup {Name}
      BY <1>3 DEF RunJob, StartJob, AwaitJob, PassJob, RetryJob, historyVars
    <2>2. rec'.pc = "commit"
      <3>1. PICK o \in Statuses : Answers(o)
        BY <1>3, RunJobOutcome
      <3> QED
        BY <3>1 DEF Answers, IInv, TypeOK
    <2>3. Name.phase = rec.status.phase /\ Name.release = rec.status.target
      BY DEF Name, JobName
    <2>4. \A n \in Jobs' : n \in Jobs \/ n = Name
      BY <2>1 DEF Jobs
    <2> QED
      BY <2>1, <2>2, <2>3, <2>4 DEF Vouching, ConfirmedMigration
  <1>4. CASE Reconcile /\ ~LookForJob /\ ~RunJob
    <2>1. UNCHANGED <<jobVars, vouched>>
      BY <1>4 DEF Reconcile, HoldPause, CatalogFails, DigestChanged, ReplaceTarget,
                  BeginTransition, Rebase, Maintain, Advance, Quiesce, Rollout,
                  UpdateSupervisor, Complete, clusterVars, historyVars
    <2>2. rec'.pc = "commit"
      <3>1. \E o \in Statuses : Answers(o)
        BY <1>4, StopOutcome, DigestChangedOutcome, ReplaceTargetOutcome,
           BeginTransitionOutcome, RebaseOutcome, MaintainOutcome, DeploymentPhaseOutcome,
           CompleteOutcome DEF Reconcile, Advance
      <3> QED
        BY <3>1 DEF Answers, IInv, TypeOK
    <2> QED
      BY <1>1, <2>1, <2>2 DEF jobVars, Jobs
  <1>5. CASE ~Reconcile
    <2>1. UNCHANGED vouched
      BY <1>5
      DEF Next, Process, Faults, Operator, Workloads, List, Commit, RetryElapses, Restart,
          ReplacePod, Refuse, LoseReply, Crash, JobDeleted, PodFails, EditSpec, EditReferences,
          EditConfirmation, MigrateSchema, JobCompletes, JobFails, MigratorExits,
          DeploymentObserved, PodExits, PodStarts, PodAvailable, vars, historyVars
    <2>2. Jobs' \subseteq Jobs
      <3>1. CASE JobCompletes \/ JobFails \/ JobDeleted
        BY <3>1 DEF JobCompletes, JobFails, JobDeleted, Jobs
      <3>2. CASE ~(JobCompletes \/ JobFails \/ JobDeleted)
        BY <1>5, <3>2
        DEF Next, Process, Faults, Operator, Workloads, List, Commit, RetryElapses, Restart,
            ReplacePod, Refuse, LoseReply, Crash, PodFails, EditSpec, EditReferences,
            EditConfirmation, MigrateSchema, MigratorExits, DeploymentObserved, PodExits,
            PodStarts, PodAvailable, vars, clusterVars, jobVars, Jobs
      <3> QED
        BY <3>1, <3>2
    <2>3. rec'.pc = "job" => rec.pc = "job" /\ rec'.status = rec.status
      <3>1. CASE Refuse \/ LoseReply
        BY <3>1 DEF Refuse, LoseReply, Fail, Block, Reply, IInv, TypeOK
      <3>2. CASE Operator
        BY <3>2 DEF Operator, EditSpec, EditReferences, EditConfirmation, IInv, TypeOK
      <3>3. CASE List \/ Commit \/ Crash \/ Restart \/ ReplacePod
        BY <3>3 DEF List, Commit, Crash, Restart, ReplacePod, Idle
      <3>4. CASE ~(Refuse \/ LoseReply \/ Operator \/ List \/ Commit \/ Crash \/ Restart
                   \/ ReplacePod)
        BY <1>5, <3>4
        DEF Next, Process, Faults, Workloads, RetryElapses, JobDeleted, PodFails, MigrateSchema,
            JobCompletes, JobFails, MigratorExits, DeploymentObserved, PodExits, PodStarts,
            PodAvailable, vars
      <3> QED
        BY <3>1, <3>2, <3>3, <3>4
    <2> QED
      BY <1>1, <2>1, <2>2, <2>3
  <1> QED
    BY <1>2, <1>3, <1>4, <1>5

\* Every migration Job of a guarded release was confirmed when a pass last
\* looked for it and found none (the second RecoveryCheck and CapacityCheck of
\* Advance), whatever crashes, deletions and edits fall between that look, the
\* creation of the Job and the passes after it.
THEOREM MigrationConfirmed == Spec => []ConfirmedMigration
  <1>1. Init => Vouching
    BY DEF Init, Idle, Vouching, ConfirmedMigration, Jobs
  <1>2. Vouching => ConfirmedMigration
    BY DEF Vouching
  <1> QED
    BY <1>1, <1>2, Inductive, NextKeepsVouching, PTL DEF Spec

-----------------------------------------------------------------------------
(* The passes implement Transition.                                        *)
LEMMA InitPromise == Init => Promise!Init
  <1> SUFFICES ASSUME Init PROVE Promise!Init
    OBVIOUS
  <1>1. PICK start \in Starts : StartsFrom(start.installed, start.interrupted)
    BY DEF Init
  <1> DEFINE at == start.installed
             to == start.interrupted
  <1>2. /\ at \in Releases \cup {None} /\ to \in Releases \cup {None}
        /\ to # None => at \notin {None, to} /\ MayFollow(at, to)
    BY WorldAssumption
  <1>3. StartsFrom(at, to)
    BY <1>1
  <1> HIDE DEF at, to
  <1>4. CASE at = None
    <2>1. /\ status.current = None /\ status.target = None /\ status.mayHaveRun = "unknown"
          /\ serving = {} /\ db = 0
      BY <1>3, <1>2, <1>4 DEF StartsFrom, EmptyStatus
    <2> QED
      BY <2>1 DEF Promise!Init, Crossed
  <1>5. CASE at # None /\ to = None
    <2>1. status = InstalledStatus(at, FirstHash)
      BY <1>3, <1>5 DEF StartsFrom
    <2>2. status.current = at /\ status.target = None /\ status.mayHaveRun = "no"
      BY <2>1 DEF InstalledStatus, EmptyStatus
    <2>3. db = SchemaTo[at] /\ {p.release : p \in serving} = {at}
      BY <1>3, <1>5 DEF StartsFrom
    <2> QED
      BY <1>2, <1>5, <2>2, <2>3 DEF Promise!Init, Promise!Served, Crossed
  <1>6. CASE at # None /\ to # None
    <2>1. status = InterruptedStatus(at, to, FirstHash)
      BY <1>3, <1>6 DEF StartsFrom
    <2>2. /\ status.current = at /\ status.target = to /\ status.mayHaveRun = "unknown"
      BY <2>1, ZenonT(60) DEF InterruptedStatus, InstalledStatus, EmptyStatus
    <2>3. db \in {SchemaTo[at], SchemaTo[to]} /\ serving = {}
      BY <1>3, <1>6 DEF StartsFrom
    <2>4. Version[to] >= Version[at] \/ (to \in RollbackTo[at] /\ SchemaTo[to] = SchemaTo[at])
      BY <1>2, <1>6 DEF MayFollow, RollbackAllowed
    <2> QED
      BY <1>2, <1>6, <2>2, <2>3, <2>4 DEF Promise!Init, Promise!Served, Promise!MayFollow,
          Crossed
  <1> QED
    BY <1>4, <1>5, <1>6

LEMMA PromiseFollows ==
  ASSUME NEW r, NEW q PROVE MayFollow(r, q) <=> Promise!MayFollow(r, q)
  BY DEF MayFollow, RollbackAllowed, Promise!MayFollow

\* A commit of what was decided is a step of Transition, or none.
LEMMA CommitPromises ==
  ASSUME IInv, TInv, SameRecord(status', rec.out), Decided(status, rec.out),
         Migrating(rec.out), UNCHANGED <<db, serving>>
  PROVE  [Promise!Next]_(Promise!vars)
  <1> DEFINE s == status
             o == rec.out
  <1>1. /\ status'.current = o.current /\ status'.target = o.target
        /\ Crossed' = Beyond(o) /\ Crossed = Beyond(s)
        /\ UNCHANGED <<db, {p.release : p \in serving}>>
    BY DEF SameRecord, Crossed, Beyond
  <1>2. CASE o.current = s.current /\ o.target = s.target /\ Beyond(o) = Beyond(s)
    BY <1>1, <1>2 DEF Promise!vars
  <1>3. CASE /\ o.current = s.current /\ o.target \in Releases /\ o.target # s.target
             /\ Beyond(o) = Beyond(s)
             /\ s.current # None => MayFollow(s.current, o.target)
             /\ (s.target # None /\ Beyond(s)) => MayFollow(s.target, o.target)
    BY <1>1, <1>3, PromiseFollows DEF Promise!Next, Promise!Begin, Promise!Replace
  <1>4. CASE /\ o.current = s.current /\ s.target # None /\ o.target = None
             /\ Beyond(o) = Beyond(s)
    BY <1>1, <1>4 DEF Promise!Next, Promise!Drop
  <1>5. CASE /\ o.current = s.current /\ o.target = s.target /\ s.target \notin {None, s.current}
             /\ ~Beyond(s) /\ Beyond(o) /\ o.phase = "migration"
    <2>1. {p.release : p \in serving} = {}
      BY <1>5 DEF Migrating, Quiesced
    <2> QED
      BY <1>1, <1>5, <2>1 DEF Promise!Next, Promise!Cross
  <1>6. CASE /\ s.target # None /\ db = SchemaTo[s.target] /\ o.current = s.target
             /\ o.target = None /\ ~Beyond(o)
    BY <1>1, <1>6 DEF Promise!Next, Promise!Install, Promise!Served
  <1> QED
    BY <1>2, <1>3, <1>4, <1>5, <1>6 DEF Decided, Moves

LEMMA MigratePromises ==
  ASSUME IInv, TInv, MigrateSchema PROVE [Promise!Next]_(Promise!vars)
  <1>1. PICK n \in migrators : db \in SchemaFrom[n.release] /\ db' = SchemaTo[n.release]
    BY DEF MigrateSchema
  <1>2. UNCHANGED <<status, serving>>
    BY DEF MigrateSchema, analyzerVars
  <1>3. /\ status.target \in Releases /\ n = JobName(status, status.target)
        /\ status.mayHaveRun # "no" /\ serving = {}
    BY DEF IInv, Migrating, Recorded, Quiesced, Active
  <1>4. /\ n.release = status.target /\ status.target # None /\ Crossed
        /\ {p.release : p \in serving} = {}
    BY <1>3, StatusFields, ReleaseAssumption DEF JobName, Crossed, IInv, TypeOK
  <1>5. UNCHANGED <<status.current, status.target, Crossed, {p.release : p \in serving}>>
    BY <1>2 DEF Crossed
  <1> QED
    BY <1>1, <1>4, <1>5 DEF Promise!Next, Promise!Migrate

\* Pods come one at a time, from the template, and go.
LEMMA PodPromises ==
  ASSUME IInv, TInv, TInv', UNCHANGED <<status, db>>,
         serving' \in {serving, {}} \/ (serving = {} /\ serving' = Wanted)
  PROVE  [Promise!Next]_(Promise!vars)
  <1>1. UNCHANGED <<status.current, status.target, Crossed, db>>
    BY DEF Crossed
  <1>2. CASE serving' = serving
    <2>1. UNCHANGED {p.release : p \in serving}
      BY <1>2
    <2> QED
      BY <1>1, <2>1 DEF Promise!vars
  <1>3. CASE serving' = {}
    <2>1. {p.release : p \in serving}' = {}
      BY <1>3
    <2> QED
      BY <1>1, <2>1 DEF Promise!Next, Promise!Stop
  <1>4. CASE serving = {} /\ serving' = Wanted /\ Wanted # {}
    <2>1. /\ analyzer.replicas # 0 /\ Wanted = {[release |-> analyzer.release, hash |-> analyzer.hash]}
          /\ db = SchemaTo[analyzer.release] /\ analyzer.release \in Releases
      BY <1>4 DEF Wanted, TInv, TemplateFits, IInv, TypeOK, Deployments, NoDeployment
    <2>2. /\ {p.release : p \in serving} = {}
          /\ {p.release : p \in serving}' = {analyzer.release}
      BY <1>4, <2>1
    <2> QED
      BY <1>1, <2>1, <2>2 DEF Promise!Next, Promise!Serve, Promise!Served
  <1> QED
    BY <1>2, <1>3, <1>4

LEMMA NextPromises == IInv /\ TInv /\ [Next]_vars => [Promise!Next]_(Promise!vars)
  <1> SUFFICES ASSUME IInv, TInv, [Next]_vars PROVE [Promise!Next]_(Promise!vars)
    OBVIOUS
  <1>1. TInv'
    BY NextKeepsRules
  <1>2. CASE Commit
    <2>1. UNCHANGED <<db, serving>>
      BY <1>2, CommitRecord DEF clusterVars, analyzerVars
    <2>2. CASE rec.fresh
      BY <1>2, <2>1, <2>2, CommitRecord, CommitPromises DEF Commit, TInv, IInv
    <2>3. CASE ~rec.fresh
      BY <1>1, <1>2, <2>1, <2>3, CommitRecord, PodPromises
    <2> QED
      BY <2>2, <2>3
  <1>3. CASE RetryElapses
    <2>1. SameRecord(status', status) /\ UNCHANGED <<db, serving>>
      BY <1>3, RetryRecord DEF clusterVars, analyzerVars
    <2> QED
      BY <2>1 DEF SameRecord, Crossed, Promise!vars
  <1>4. CASE MigrateSchema
    BY <1>4, MigratePromises
  <1>5. CASE Reconcile
    BY <1>1, <1>5, PassOutcome, PodPromises
  <1>6. CASE PodExits
    <2>1. serving' = {}
      BY <1>6 DEF PodExits, TInv, Lone
    <2> QED
      BY <1>1, <1>6, <2>1, PodPromises DEF PodExits
  <1>7. CASE ~(Commit \/ RetryElapses \/ MigrateSchema \/ Reconcile \/ PodExits)
    <2>1. UNCHANGED <<status, db>>
      BY <1>7
      DEF Next, Process, Faults, Operator, Workloads, List, Restart, ReplacePod, Refuse,
          LoseReply, Crash, JobDeleted, PodFails, EditSpec, EditReferences, EditConfirmation,
          JobCompletes, JobFails, MigratorExits, DeploymentObserved, PodStarts, PodAvailable,
          vars, clusterVars
    <2>2. serving' \in {serving, {}} \/ (serving = {} /\ serving' = Wanted)
      BY <1>7
      DEF Next, Process, Faults, Operator, Workloads, List, Restart, ReplacePod, Refuse,
          LoseReply, Crash, JobDeleted, PodFails, EditSpec, EditReferences, EditConfirmation,
          JobCompletes, JobFails, MigratorExits, DeploymentObserved, PodStarts, PodAvailable,
          vars, clusterVars, analyzerVars
    <2> QED
      BY <1>1, <2>1, <2>2, PodPromises
  <1> QED
    BY <1>2, <1>3, <1>4, <1>5, <1>6, <1>7

\* Passes, Jobs and Deployments give what Transition specifies: which release
\* may follow which, that the boundary is announced while nothing is served,
\* and that a release is served and installed only on its own schema.
THEOREM SupervisorImplementsTransition == Spec => ImplementsTransition
  <1>1. IInv /\ TInv /\ [Next]_vars => [Promise!Next]_(Promise!vars)
    BY NextPromises
  <1> QED
    BY <1>1, InitPromise, RulesHold, PTL DEF Spec, ImplementsTransition, Promise!Spec
=============================================================================
