-------------------------- MODULE SupervisorProofs --------------------------
(***************************************************************************)
(* Proofs about Supervisor for any releases, catalogs, specs and bounds:   *)
(* its types, and that a migration is exclusive and on record.             *)
(*                                                                         *)
(* The hard part of the second is the time between two steps of a pass.    *)
(* The invariant says what stays true in between: nobody but the pass      *)
(* itself changes the fields of the status that name a Job, so that what   *)
(* was listed still names the Job that runs, and the status a pass is      *)
(* about to commit names it too.  A pass that has looked for a Job still   *)
(* works for the same target when it gets the Job again.                   *)
(***************************************************************************)
EXTENDS Supervisor, TLAPS

\* Migration Jobs that have not finished, and those with a Pod.
Active == migrators \cup {n \in jobRunning : n.phase = "migration"}

\* The fields of a status that name the Job of its phase, and the boundary.
SameBoundary(s, t) ==
    /\ s.target = t.target /\ s.phase = t.phase /\ s.attempt = t.attempt
    /\ s.transitionHash = t.transitionHash /\ s.transitionID = t.transitionID
    /\ s.mayHaveRun = t.mayHaveRun

\* Whatever migrates is the migration Job that s names, past the boundary.
Recorded(s) ==
    \A n \in Active : /\ s.mayHaveRun # "no" /\ s.phase = "migration"
                      /\ s.target \in Releases /\ n = JobName(s, s.target)

\* A status in the phase migration is past the boundary, and the analyzer down.
Quiesced(s) ==
    s.phase = "migration" => /\ s.mayHaveRun # "no"
                             /\ serving = {} /\ analyzer.replicas = 0

\* A pass works with the boundary that is stored.
Echo == rec.pc \in {"act", "job", "commit"} => SameBoundary(rec.status, status)

\* A Job has one outcome.
Disjoint ==
    /\ jobRunning \cap jobComplete = {} /\ jobRunning \cap jobFailed = {}
    /\ jobComplete \cap jobFailed = {}

Migrating(s) == Recorded(s) /\ Quiesced(s)

\* A pass that has looked for a Job continues a transition, whatever happens
\* to the catalog and the Secrets before it gets the Job again.
Looked ==
    rec.pc = "job" => /\ rec.status.target \in Releases /\ rec.status.phase \in JobPhases
                      /\ rec.status.transitionHash \in Hashes /\ ~PauseRequested

IInv ==
    /\ TypeOK /\ Echo /\ Disjoint /\ Looked
    /\ Migrating(status)
    /\ rec.pc = "commit" => Migrating(rec.out)
Recs == [pc : {"idle", "act", "job", "commit", "down"}, spec : Spec0,
         status : Statuses, fresh : BOOLEAN, out : Statuses, lapsed : Releases \cup {None}]

\* The pass ends with the status o to commit.
Answers(o) == rec' = [rec EXCEPT !.pc = "commit", !.out = o]

-----------------------------------------------------------------------------
(* What the helpers of a pass return.                                      *)
LEMMA HashTyped == TypeOK => hash \in Hashes
  BY DEF TypeOK, hash, Hashes, Spec0

LEMMA SelectTyped == ASSUME TypeOK, NEW v PROVE Select(v) \subseteq Releases
  BY DEF TypeOK, Select

LEMMA WorkTyped == TypeOK => work \in Statuses
  <1> SUFFICES ASSUME TypeOK PROVE work \in Statuses
    OBVIOUS
  <1>1. rec.status \in Statuses
    BY DEF TypeOK
  <1>2. [rec.status EXCEPT !.target = None, !.phase = "complete", !.retryAt = "none"]
          \in Statuses
    BY <1>1 DEF Statuses, Phases
  <1> QED
    BY <1>1, <1>2 DEF work

LEMMA CandidatesTyped == TypeOK => Candidates \subseteq Releases
  <1> SUFFICES ASSUME TypeOK PROVE Candidates \subseteq Releases
    OBVIOUS
  <1>1. work.current \in Releases \cup {None}
    BY WorkTyped DEF Statuses
  <1>2. /\ Select(Version[work.target]) \subseteq Releases
        /\ Select(rec.spec.pin) \subseteq Releases
    BY SelectTyped
  <1> QED
    BY <1>1, <1>2, Zenon DEF Candidates

\* Only a pass that has read the world has a release to act for.
LEMMA CandidatesActing == ASSUME NEW sel \in Candidates PROVE rec.pc = "act"
  BY DEF Candidates

LEMMA BlockAnswers ==
  ASSUME NEW s \in Statuses, Block(s)
  PROVE  \E o \in Statuses : Answers(o) /\ SameBoundary(o, s)
  <1> DEFINE o == [s EXCEPT !.blocked = TRUE, !.ready = FALSE]
  <1>1. o \in Statuses /\ SameBoundary(o, s)
    BY DEF Statuses, SameBoundary
  <1>2. Answers(o)
    BY DEF Block, Reply, Answers
  <1> QED
    BY <1>1, <1>2

LEMMA ProceedAnswers ==
  ASSUME NEW s \in Statuses, Proceed(s)
  PROVE  \E o \in Statuses : Answers(o) /\ SameBoundary(o, s)
  <1> DEFINE o == [s EXCEPT !.blocked = FALSE, !.ready = (s.phase = "complete")]
             ready == s.phase = "complete"
  <1>1. Answers(o) /\ ready \in BOOLEAN
    BY DEF Proceed, Reply, Answers
  <1>2. o = [s EXCEPT !.blocked = FALSE, !.ready = ready]
    OBVIOUS
  <1> HIDE DEF ready, o
  <1>3. o \in Statuses
    BY <1>1, <1>2 DEF Statuses
  <1>4. SameBoundary(o, s)
    BY <1>2 DEF Statuses, SameBoundary
  <1> QED
    BY <1>1, <1>3, <1>4

LEMMA RestartedTyped ==
  ASSUME TypeOK, NEW s \in Statuses
  PROVE  Restarted(s) \in Statuses /\ Restarted(s).phase = "preflight"
  <1>1. s.transitionID + 1 \in Nat
    BY DEF Statuses
  <1> QED
    BY <1>1, HashTyped, ZenonT(60) DEF Restarted, Statuses, Phases

LEMMA BeginAnswers ==
  ASSUME TypeOK, NEW s \in Statuses, NEW sel \in Releases, Begin(s, sel)
  PROVE  \E o \in Statuses : /\ Answers(o)
                             /\ o.phase = "preflight" \/ SameBoundary(o, s)
  <1>1. CASE MayStart(s, sel)
    <2>1. PICK t \in Statuses : t = Restarted(s) /\ t.phase = "preflight"
      BY RestartedTyped
    <2> DEFINE v == IF t.mayHaveRun = "unknown" THEN "no" ELSE t.mayHaveRun
               o == [t EXCEPT !.target = sel, !.mayHaveRun = v]
    <2>2. v \in {"unknown", "no", "yes"}
      BY DEF Statuses
    <2>3. Answers(o)
      BY <1>1, <2>1 DEF Begin, Reply, Answers
    <2> HIDE DEF v
    <2>4. o \in Statuses
      BY <2>2, ZenonT(60) DEF Statuses
    <2>5. o.phase = "preflight"
      BY <2>1 DEF Statuses
    <2> HIDE DEF o
    <2> QED
      BY <2>3, <2>4, <2>5
  <1>2. CASE ~MayStart(s, sel)
    BY <1>2, BlockAnswers DEF Begin
  <1> QED
    BY <1>1, <1>2

LEMMA DetachedTyped ==
  ASSUME NEW s \in Statuses
  PROVE  Detached(s) \in Statuses /\ Detached(s).phase = "preflight"
  <1> DEFINE ran == IF s.mayHaveRun = "unknown" THEN "yes" ELSE s.mayHaveRun
  <1>1. ran \in {"unknown", "no", "yes"}
    BY DEF Statuses
  <1>2. Detached(s) = [s EXCEPT !.target = None, !.phase = "preflight", !.mayHaveRun = ran]
    BY DEF Detached
  <1> HIDE DEF ran
  <1> QED
    BY <1>1, <1>2, ZenonT(60) DEF Statuses, Phases

LEMMA RetriedTyped ==
  ASSUME TypeOK, NEW s \in Statuses
  PROVE  /\ Retried(s) \in Statuses /\ Retried(s).phase = s.phase
         /\ Retried(s).mayHaveRun = s.mayHaveRun
  <1>1. s.attempt + 1 \in Nat
    BY DEF Statuses
  <1>2. /\ [s EXCEPT !.retryAt = "waiting"] \in Statuses
        /\ [s EXCEPT !.attempt = @ + 1, !.retryAt = "none"] \in Statuses
    BY <1>1, ZenonT(60) DEF Statuses
  <1>3. \/ Retried(s) = s
        \/ Retried(s) = [s EXCEPT !.retryAt = "waiting"]
        \/ Retried(s) = [s EXCEPT !.attempt = @ + 1, !.retryAt = "none"]
    BY DEF Retried
  <1>4. Retried(s) \in Statuses
    BY <1>2, <1>3
  <1> QED
    BY <1>3, <1>4, ZenonT(60) DEF Statuses

\* A transition enters the phase migration only past the boundary.
LEMMA NextPhaseTyped ==
  ASSUME NEW s \in Statuses, NEW sel \in Releases
  PROVE  /\ NextPhase(s, sel) \in Statuses
         /\ NextPhase(s, sel).phase = PhaseAfter(s, sel)
         /\ PhaseAfter(s, sel) = "migration" => /\ NextPhase(s, sel).mayHaveRun = "yes"
                                                /\ s.phase = "quiesce"
  <1>1. PhaseAfter(s, sel) \in Phases
    BY DEF PhaseAfter, Phases
  <1>2. PhaseAfter(s, sel) = "migration" => s.phase = "quiesce"
    BY DEF PhaseAfter
  <1>3. NextPhase(s, sel) =
          [s EXCEPT !.phase = PhaseAfter(s, sel), !.attempt = 0,
             !.migrationDigest = IF PhaseAfter(s, sel) = "migration" /\ s.mayHaveRun = "no"
                                 THEN sel ELSE s.migrationDigest,
             !.mayHaveRun = IF PhaseAfter(s, sel) = "migration" THEN "yes" ELSE s.mayHaveRun]
    BY DEF NextPhase
  <1> DEFINE digest == IF PhaseAfter(s, sel) = "migration" /\ s.mayHaveRun = "no"
                       THEN sel ELSE s.migrationDigest
             ran == IF PhaseAfter(s, sel) = "migration" THEN "yes" ELSE s.mayHaveRun
  <1>4. /\ digest \in Releases \cup {None} /\ ran \in {"unknown", "no", "yes"}
        /\ 0 \in Nat
    BY DEF Statuses
  <1>5. PhaseAfter(s, sel) = "migration" => ran = "yes"
    OBVIOUS
  <1>6. NextPhase(s, sel) = [s EXCEPT !.phase = PhaseAfter(s, sel), !.attempt = 0,
                               !.migrationDigest = digest, !.mayHaveRun = ran]
    BY <1>3
  <1> HIDE DEF digest, ran
  <1>7. NextPhase(s, sel) \in Statuses
    BY <1>1, <1>4, <1>6, ZenonT(60) DEF Statuses
  <1>8. NextPhase(s, sel).phase = PhaseAfter(s, sel) /\ NextPhase(s, sel).mayHaveRun = ran
    BY <1>6 DEF Statuses
  <1> QED
    BY <1>2, <1>5, <1>7, <1>8

LEMMA JobNameTyped ==
  ASSUME NEW s \in Statuses, NEW sel \in Releases, s.phase \in JobPhases
  PROVE  JobName(s, sel) \in JobNames
  BY DEF JobName, JobNames, Statuses

LEMMA AppliedTyped ==
  ASSUME TypeOK, NEW r \in Releases, NEW h \in Hashes, NEW n \in {0, 1}
  PROVE  /\ Applied(r, h, n) \in Deployments \cup {NoDeployment}
         /\ Applied(r, h, n).replicas = n
  BY DEF TypeOK, Applied, Deployments
-----------------------------------------------------------------------------
(* When a status may be kept, committed or replaced.                       *)
LEMMA SameMigrating ==
  ASSUME NEW s, NEW t, SameBoundary(s, t), Migrating(t) PROVE Migrating(s)
  BY DEF SameBoundary, Migrating, Recorded, Quiesced, JobName

LEMMA NoneMigrating ==
  ASSUME NEW s, Active = {}, s.phase # "migration" PROVE Migrating(s)
  BY DEF Migrating, Recorded, Quiesced

LEMMA ListedMigrating ==
  ASSUME IInv, rec.pc \in {"act", "job", "commit"} PROVE Migrating(rec.status)
  BY SameMigrating DEF IInv, Echo

\* While something migrates no pause is taken for cancellable.
LEMMA WorkMigrating ==
  ASSUME IInv, rec.pc = "act", PauseRequested => MayCancel
  PROVE  /\ Migrating(work) /\ work \in Statuses
         /\ Active # {} => work = rec.status /\ work.target # None /\ work.phase = "migration"
         /\ work # rec.status => rec.status.phase # "migration" /\ work.target = None
  <1>0. rec.status \in Statuses /\ work \in Statuses
    BY WorkTyped DEF IInv, TypeOK
  <1>1. Migrating(rec.status)
    BY ListedMigrating
  <1>2. CASE PauseRequested
    <2>1. rec.status.mayHaveRun = "no"
      BY <1>2 DEF MayCancel
    <2>2. Active = {} /\ rec.status.phase # "migration"
      BY <2>1, <1>1 DEF Migrating, Recorded, Quiesced
    <2>3. work.phase = "complete" /\ work.target = None
      BY <1>2, <1>0 DEF work, Statuses
    <2> QED
      BY <1>0, <2>2, <2>3, NoneMigrating
  <1>3. CASE ~PauseRequested
    BY <1>0, <1>1, <1>3, ReleaseAssumption DEF work, Migrating, Recorded
  <1> QED
    BY <1>2, <1>3

\* A pass that changes nothing but its own record.
LEMMA ReplyKeeps ==
  ASSUME IInv, rec.pc \in {"act", "job", "commit"},
         NEW o \in Statuses, Answers(o), Migrating(o),
         UNCHANGED <<policyVars, status, clusterVars, checked, old, edits>>, faults' \in Nat,
         vouched' \subseteq JobNames
  PROVE  IInv'
  <1>1. /\ rec' \in Recs /\ rec'.pc = "commit" /\ rec'.out = o /\ rec'.status = rec.status
    BY DEF Answers, IInv, TypeOK, Recs
  <1>2. TypeOK'
    BY <1>1 DEF IInv, TypeOK, Recs, policyVars, clusterVars, jobVars, analyzerVars,
                supervisorVars
  <1>3. Echo' /\ Disjoint' /\ Looked'
    BY <1>1 DEF IInv, Echo, Disjoint, Looked, SameBoundary, clusterVars, jobVars
  <1>4. Migrating(status)' /\ Migrating(rec.out)'
    BY <1>1 DEF IInv, Migrating, Recorded, Quiesced, Active, clusterVars, jobVars, analyzerVars
  <1> QED
    BY <1>2, <1>3, <1>4 DEF IInv

LEMMA DecisionKeeps ==
  ASSUME IInv, rec.pc \in {"act", "job", "commit"},
         NEW o \in Statuses, Answers(o), Migrating(o),
         UNCHANGED <<policyVars, status, clusterVars, historyVars, edits>>, faults' \in Nat
  PROVE  IInv'
  <1>1. vouched' \subseteq JobNames
    BY DEF historyVars, IInv, TypeOK
  <1> QED
    BY <1>1, ReplyKeeps DEF historyVars

LEMMA StopKeeps ==
  ASSUME IInv, HoldPause \/ CatalogFails \/ Refuse \/ LoseReply PROVE IInv'
  <1>1. rec.pc \in {"act", "job", "commit"} /\ Block(rec.status)
    BY DEF HoldPause, CatalogFails, Refuse, LoseReply, Fail
  <1>2. rec.status \in Statuses /\ Migrating(rec.status)
    BY <1>1, ListedMigrating DEF IInv, TypeOK
  <1>3. PICK o \in Statuses : Answers(o) /\ SameBoundary(o, rec.status)
    BY <1>1, <1>2, BlockAnswers
  <1>4. Migrating(o)
    BY <1>2, <1>3, SameMigrating
  <1>5. faults' \in Nat /\ UNCHANGED <<policyVars, status, clusterVars, historyVars, edits>>
    BY DEF HoldPause, CatalogFails, Refuse, LoseReply, boundVars, IInv, TypeOK
  <1> QED
    BY <1>1, <1>3, <1>4, <1>5, DecisionKeeps

LEMMA DigestChangedKeeps == ASSUME IInv, DigestChanged PROVE IInv'
  <1>1. rec.pc = "act" /\ Migrating(work) /\ work \in Statuses
    BY WorkMigrating DEF DigestChanged
  <1>2. PICK o \in Statuses : Answers(o) /\ SameBoundary(o, work)
    BY <1>1, BlockAnswers DEF DigestChanged
  <1>3. Migrating(o)
    BY <1>1, <1>2, SameMigrating
  <1>4. faults' \in Nat /\ UNCHANGED <<policyVars, status, clusterVars, historyVars, edits>>
    BY DEF DigestChanged, boundVars, IInv, TypeOK
  <1> QED
    BY <1>1, <1>2, <1>3, <1>4, DecisionKeeps

\* A target is replaced only when its migration Job and its Pod are gone.
LEMMA ReplaceTargetKeeps == ASSUME IInv, ReplaceTarget PROVE IInv'
  <1>1. PICK sel \in Candidates, req \in Select(rec.spec.pin) :
          /\ Selected(sel) /\ Replacing(sel, req)
          /\ IF MayReplace(sel, req) THEN Begin(Detached(rec.status), req)
                                     ELSE Block(rec.status)
    BY DEF ReplaceTarget
  <1>2. TypeOK /\ rec.pc = "act" /\ rec.status \in Statuses /\ req \in Releases
        /\ Migrating(rec.status)
    BY <1>1, SelectTyped, ListedMigrating, CandidatesActing DEF Selected, IInv, TypeOK
  <1>3. work.target = sel /\ (Active # {} => work = rec.status /\ rec.status.phase = "migration")
    BY <1>1, <1>2, WorkMigrating DEF Selected, Replacing
  <1>4. faults' \in Nat /\ UNCHANGED <<policyVars, status, clusterVars, historyVars, edits>>
    BY DEF ReplaceTarget, boundVars, IInv, TypeOK
  <1>5. CASE MayReplace(sel, req)
    <2>1. Active = {}
      <3> SUFFICES ASSUME NEW n \in Active PROVE FALSE
        OBVIOUS
      <3>1. n = JobName(rec.status, sel) /\ rec.status.phase = "migration"
        BY <1>2, <1>3 DEF Migrating, Recorded
      <3>2. MigrationActive(n)
        BY DEF MigrationActive, Active
      <3> QED
        BY <3>1, <3>2, <1>5 DEF MayReplace
    <2>2. Detached(rec.status) \in Statuses /\ Detached(rec.status).phase = "preflight"
      BY <1>2, DetachedTyped
    <2>3. PICK o \in Statuses : /\ Answers(o)
                                /\ o.phase = "preflight" \/ SameBoundary(o, Detached(rec.status))
      BY <1>1, <1>2, <1>5, <2>2, BeginAnswers
    <2>4. Migrating(o)
      BY <2>1, <2>2, <2>3, NoneMigrating DEF SameBoundary
    <2>5. Answers(o) /\ rec.pc \in {"act", "job", "commit"}
      BY <1>2, <2>3
    <2> QED
      BY <1>4, <2>4, <2>5, DecisionKeeps
  <1>6. CASE ~MayReplace(sel, req)
    <2>1. PICK o \in Statuses : Answers(o) /\ SameBoundary(o, rec.status)
      BY <1>1, <1>2, <1>6, BlockAnswers
    <2>2. Migrating(o)
      BY <1>2, <2>1, SameMigrating
    <2> QED
      BY <1>2, <1>4, <2>1, <2>2, DecisionKeeps
  <1> QED
    BY <1>5, <1>6

LEMMA BeginTransitionKeeps == ASSUME IInv, BeginTransition PROVE IInv'
  <1>1. PICK sel \in Candidates : Selected(sel) /\ work.target = None /\ Begin(work, sel)
    BY DEF BeginTransition
  <1>2. TypeOK /\ rec.pc = "act" /\ sel \in Releases
    BY <1>1, CandidatesTyped, CandidatesActing DEF Selected, IInv
  <1>3. Active = {} /\ Migrating(work) /\ work \in Statuses
    BY <1>1, <1>2, WorkMigrating DEF Selected
  <1>4. PICK o \in Statuses : Answers(o) /\ (o.phase = "preflight" \/ SameBoundary(o, work))
    BY <1>1, <1>2, <1>3, BeginAnswers
  <1>5. Migrating(o)
    BY <1>3, <1>4, SameMigrating, NoneMigrating
  <1>6. faults' \in Nat /\ UNCHANGED <<policyVars, status, clusterVars, historyVars, edits>>
    BY DEF BeginTransition, boundVars, IInv, TypeOK
  <1> QED
    BY <1>2, <1>4, <1>5, <1>6, DecisionKeeps
\* A changed configuration restarts the checks only when nothing migrates.
LEMMA RebaseKeeps == ASSUME IInv, Rebase PROVE IInv'
  <1>1. PICK sel \in Candidates :
          /\ Continues(sel)
          /\ IF rec.status.phase = "migration" /\ MigrationActive(JobName(rec.status, sel))
             THEN Block(rec.status) ELSE Reply(Restarted(rec.status))
    BY DEF Rebase
  <1>2. TypeOK /\ rec.pc = "act" /\ rec.status \in Statuses /\ Migrating(rec.status)
    BY <1>1, ListedMigrating, CandidatesActing DEF Continues, Selected, IInv, TypeOK
  <1>3. work.target = sel /\ (Active # {} => work = rec.status /\ rec.status.phase = "migration")
    BY <1>1, <1>2, WorkMigrating DEF Continues, Selected
  <1>4. faults' \in Nat /\ UNCHANGED <<policyVars, status, clusterVars, historyVars, edits>>
    BY DEF Rebase, boundVars, IInv, TypeOK
  <1>5. CASE Block(rec.status)
    <2>1. PICK o \in Statuses : Answers(o) /\ SameBoundary(o, rec.status)
      BY <1>2, <1>5, BlockAnswers
    <2>2. Migrating(o)
      BY <1>2, <2>1, SameMigrating
    <2> QED
      BY <1>2, <1>4, <2>1, <2>2, DecisionKeeps
  <1>6. CASE /\ Reply(Restarted(rec.status))
             /\ rec.status.phase = "migration" => ~MigrationActive(JobName(rec.status, sel))
    <2>1. Active = {}
      <3> SUFFICES ASSUME NEW n \in Active PROVE FALSE
        OBVIOUS
      <3>1. n = JobName(rec.status, sel) /\ rec.status.phase = "migration"
        BY <1>2, <1>3 DEF Migrating, Recorded
      <3>2. MigrationActive(n)
        BY DEF MigrationActive, Active
      <3> QED
        BY <3>1, <3>2, <1>6
    <2>2. PICK o \in Statuses : o = Restarted(rec.status) /\ o.phase = "preflight"
      BY <1>2, RestartedTyped
    <2>3. Answers(o) /\ Migrating(o)
      BY <1>6, <2>1, <2>2, NoneMigrating DEF Reply, Answers
    <2> QED
      BY <1>2, <1>4, <2>3, DecisionKeeps
  <1> QED
    BY <1>1, <1>5, <1>6

-----------------------------------------------------------------------------
(* The passes that write to the cluster.                                   *)

\* A pass that ends with o, and may have changed Jobs, the analyzer or the
\* supervisor's image.
LEMMA PassKeeps ==
  ASSUME IInv, rec.pc \in {"act", "job", "commit"}, NEW o \in Statuses, Answers(o),
         UNCHANGED <<policyVars, status, db, serving, running, historyVars, boundVars>>,
         jobRunning' \subseteq JobNames, UNCHANGED <<jobComplete, jobFailed>>,
         migrators' \subseteq JobNames,
         analyzer' \in Deployments \cup {NoDeployment}, image' \in Releases \cup {None},
         Disjoint', Migrating(status)', Migrating(rec.out)'
  PROVE  IInv'
  <1>1. /\ rec' \in Recs /\ rec'.pc = "commit" /\ rec'.out = o /\ rec'.status = rec.status
    BY DEF Answers, IInv, TypeOK, Recs
  <1>2. TypeOK'
    BY <1>1 DEF IInv, TypeOK, Recs, policyVars, historyVars, boundVars
  <1>3. Echo' /\ Looked'
    BY <1>1 DEF IInv, Echo, Looked, SameBoundary
  <1> QED
    BY <1>2, <1>3 DEF IInv

LEMMA MaintainKeeps == ASSUME IInv, Maintain PROVE IInv'
  <1>1. PICK sel \in Candidates :
          /\ Selected(sel) /\ work.target = None /\ Settled(work, sel)
          /\ analyzer' = Applied(sel, hash, 1)
          /\ Proceed(work) \/ Block(work)
    BY DEF Maintain
  <1>2. TypeOK /\ rec.pc = "act" /\ sel \in Releases /\ hash \in Hashes
    BY <1>1, CandidatesTyped, CandidatesActing, HashTyped DEF Selected, IInv
  <1>3. Active = {} /\ work \in Statuses /\ work.phase = "complete"
        /\ rec.status.phase # "migration"
    BY <1>1, <1>2, WorkMigrating DEF Selected, Settled
  <1>4. PICK o \in Statuses : Answers(o) /\ SameBoundary(o, work)
    BY <1>1, <1>3, BlockAnswers, ProceedAnswers
  <1>5. /\ UNCHANGED <<policyVars, status, db, serving, running, historyVars, boundVars>>
        /\ UNCHANGED <<jobRunning, jobComplete, jobFailed, migrators, image>>
    BY DEF Maintain, jobVars, supervisorVars
  <1>6. analyzer' \in Deployments \cup {NoDeployment}
    BY <1>1, <1>2, AppliedTyped
  <1>7. Active' = {} /\ status'.phase # "migration" /\ rec'.out.phase # "migration"
    <2>1. status.phase # "migration"
      BY <1>2, <1>3 DEF IInv, Echo, SameBoundary
    <2>2. rec'.out = o
      BY <1>4, <1>2 DEF Answers, TypeOK
    <2> QED
      BY <1>3, <1>4, <1>5, <2>1, <2>2 DEF Active, SameBoundary
  <1>8. Migrating(status)' /\ Migrating(rec.out)'
    BY <1>7 DEF Migrating, Recorded, Quiesced
  <1>9. Disjoint' /\ jobRunning' \subseteq JobNames /\ migrators' \subseteq JobNames
        /\ image' \in Releases \cup {None}
    BY <1>5 DEF IInv, Disjoint, TypeOK
  <1> QED
    BY <1>2, <1>4, <1>5, <1>6, <1>8, <1>9, PassKeeps

\* What advances works with the listed status, and on the Job that migrates.
LEMMA AdvanceWorks ==
  ASSUME IInv, NEW sel \in Candidates, Advances(sel)
  PROVE  /\ rec.pc = "act" /\ sel \in Releases /\ hash \in Hashes
         /\ rec.status \in Statuses /\ rec.status.target = sel
         /\ Migrating(rec.status) /\ SameBoundary(rec.status, status)
         /\ rec.status.transitionHash = hash /\ ~PauseRequested
         /\ \A n \in Active : n = Name /\ rec.status.phase = "migration"
  <1>1. rec.pc = "act" /\ (PauseRequested => MayCancel) /\ work.target = sel /\ sel # None
        /\ sel \in Releases
    BY CandidatesTyped, CandidatesActing, ReleaseAssumption DEF Advances, Continues,
        Selected, IInv
  <1>2. TypeOK /\ hash \in Hashes /\ rec.status \in Statuses
    BY HashTyped DEF IInv, TypeOK
  <1>3. work = rec.status /\ ~PauseRequested
    <2>1. work = rec.status
      BY <1>1, WorkMigrating
    <2>2. CASE PauseRequested
      <3>1. work.target = None
        BY <1>2, <2>2 DEF work, Statuses
      <3> QED
        BY <1>1, <3>1, ReleaseAssumption
    <2> QED
      BY <2>1, <2>2
  <1>4. Migrating(rec.status) /\ SameBoundary(rec.status, status)
    BY <1>1, ListedMigrating DEF IInv, Echo
  <1>5. rec.status.transitionHash = hash
    BY DEF Advances
  <1> QED
    BY <1>1, <1>2, <1>3, <1>4, <1>5 DEF Migrating, Recorded, Name

\* Looking for a Job changes nothing but the pass.
LEMMA LookForJobKeeps == ASSUME IInv, LookForJob PROVE IInv'
  <1>1. PICK sel \in Candidates : Advances(sel)
    BY DEF LookForJob
  <1>2. /\ rec.pc = "act" /\ sel \in Releases /\ hash \in Hashes /\ rec.status \in Statuses
        /\ rec.status.target = sel /\ rec.status.transitionHash = hash /\ ~PauseRequested
        /\ Migrating(rec.status)
    BY <1>1, AdvanceWorks
  <1>3. rec.status.phase \in JobPhases /\ Name \in JobNames
    BY <1>2, JobNameTyped DEF LookForJob, Name
  <1>4. /\ vouched' \subseteq JobNames
        /\ UNCHANGED <<policyVars, status, clusterVars, checked, old, boundVars>>
    BY <1>3 DEF LookForJob, IInv, TypeOK
  <1>5. CASE Block(rec.status)
    <2>1. PICK o \in Statuses : Answers(o) /\ SameBoundary(o, rec.status)
      BY <1>2, <1>5, BlockAnswers
    <2>2. Migrating(o)
      BY <1>2, <2>1, SameMigrating
    <2>3. faults' \in Nat /\ UNCHANGED <<policyVars, status, clusterVars, checked, old, edits>>
      BY <1>4 DEF boundVars, IInv, TypeOK
    <2> QED
      BY <1>2, <1>4, <2>1, <2>2, <2>3, ReplyKeeps
  <1>6. CASE rec' = [rec EXCEPT !.pc = "job"]
    <2>1. /\ rec' \in Recs /\ rec'.pc = "job" /\ rec'.status = rec.status
          /\ rec'.spec = rec.spec
      BY <1>6 DEF IInv, TypeOK, Recs
    <2>2. TypeOK'
      BY <1>4, <2>1 DEF IInv, TypeOK, Recs, policyVars, clusterVars, jobVars, analyzerVars,
                        supervisorVars, boundVars
    <2>3. Echo' /\ Disjoint' /\ Migrating(status)'
      BY <1>2, <1>4, <2>1 DEF IInv, Echo, SameBoundary, Disjoint, Migrating, Recorded,
                              Quiesced, Active, clusterVars, jobVars, analyzerVars
    <2>4. Looked'
      BY <1>2, <1>3, <2>1 DEF Looked, PauseRequested, Paused
    <2> QED
      BY <2>1, <2>2, <2>3, <2>4 DEF IInv
  <1> QED
    BY <1>5, <1>6 DEF LookForJob

\* At the Job, the pass works with the listed status, as when it looked.
LEMMA JobWorks ==
  ASSUME IInv, rec.pc = "job"
  PROVE  /\ rec.status \in Statuses /\ rec.status.target \in Releases
         /\ rec.status.phase \in JobPhases /\ Name \in JobNames
         /\ Name.phase = rec.status.phase
         /\ Migrating(rec.status) /\ SameBoundary(rec.status, status)
         /\ \A n \in Active : n = Name /\ rec.status.phase = "migration"
  <1>1. /\ rec.status \in Statuses /\ rec.status.target \in Releases
        /\ rec.status.phase \in JobPhases /\ SameBoundary(rec.status, status)
    BY DEF IInv, TypeOK, Looked, Echo
  <1>2. Migrating(rec.status)
    BY ListedMigrating
  <1>3. Name \in JobNames /\ Name.phase = rec.status.phase
    BY <1>1, JobNameTyped DEF Name, JobName
  <1> QED
    BY <1>1, <1>2, <1>3 DEF Migrating, Recorded, Name

\* The outcomes of job that create no Job.
LEMMA JobPassKeeps == ASSUME IInv, RunJob, AwaitJob \/ PassJob \/ RetryJob PROVE IInv'
  <1>1. /\ rec.pc = "job" /\ UNCHANGED <<jobVars, analyzer, image>>
        /\ UNCHANGED <<policyVars, status, clusterVars, historyVars, edits>> /\ faults' \in Nat
    BY DEF RunJob, AwaitJob, PassJob, RetryJob, jobVars, clusterVars, analyzerVars,
           supervisorVars, boundVars, IInv, TypeOK
  <1>2. /\ rec.status.target \in Releases /\ rec.status \in Statuses
        /\ rec.status.phase \in JobPhases /\ Migrating(rec.status)
        /\ \A n \in Active : n = Name /\ rec.status.phase = "migration"
    BY <1>1, JobWorks
  <1>3. CASE AwaitJob
    <2>1. PICK o \in Statuses : Answers(o) /\ SameBoundary(o, rec.status)
      BY <1>2, <1>3, ProceedAnswers DEF AwaitJob
    <2>2. Migrating(o)
      BY <1>2, <2>1, SameMigrating
    <2> QED
      BY <1>1, <2>1, <2>2, DecisionKeeps
  <1>4. ASSUME ~PodRunning, Name \notin jobRunning PROVE Active = {}
    BY <1>2, <1>4 DEF Active, PodRunning
  <1>5. CASE PassJob
    <2>1. Active = {}
      BY <1>4, <1>5 DEF PassJob, IInv, Disjoint
    <2>2. PICK s \in Statuses : s = NextPhase(rec.status, rec.status.target)
                                /\ s.phase # "migration"
      BY <1>2, NextPhaseTyped DEF JobPhases
    <2>3. PICK o \in Statuses : Answers(o) /\ SameBoundary(o, s)
      BY <1>5, <2>2, ProceedAnswers DEF PassJob
    <2>4. Migrating(o)
      BY <2>1, <2>2, <2>3, NoneMigrating DEF SameBoundary
    <2> QED
      BY <1>1, <2>3, <2>4, DecisionKeeps
  <1>6. CASE RetryJob
    <2>1. Active = {}
      BY <1>4, <1>6 DEF RetryJob, IInv, Disjoint
    <2>2. PICK s \in Statuses : s = Retried(rec.status) /\ s.phase = rec.status.phase
                                /\ s.mayHaveRun = rec.status.mayHaveRun
      BY <1>2, RetriedTyped DEF IInv
    <2>3. PICK o \in Statuses : Answers(o) /\ SameBoundary(o, s)
      BY <1>6, <2>2, BlockAnswers DEF RetryJob
    <2>4. Migrating(o)
      BY <1>2, <2>1, <2>2, <2>3 DEF Migrating, Recorded, Quiesced, SameBoundary
    <2> QED
      BY <1>1, <2>3, <2>4, DecisionKeeps
  <1> QED
    BY <1>3, <1>5, <1>6

\* A migration Job is created past the boundary, when no other Job migrates.
LEMMA StartJobKeeps == ASSUME IInv, RunJob, StartJob PROVE IInv'
  <1>1. /\ rec.pc = "job" /\ UNCHANGED <<jobComplete, jobFailed, analyzer, image>>
        /\ UNCHANGED <<policyVars, status, db, serving, running, historyVars, boundVars>>
    BY DEF RunJob, analyzerVars, supervisorVars
  <1>2. /\ rec.status \in Statuses /\ Migrating(rec.status) /\ SameBoundary(rec.status, status)
        /\ rec.status.target \in Releases /\ Name \in JobNames /\ Name.phase = rec.status.phase
        /\ \A n \in Active : n = Name /\ rec.status.phase = "migration"
    BY <1>1, JobWorks
  <1>3. PICK o \in Statuses : Answers(o) /\ SameBoundary(o, rec.status)
    BY <1>2, ProceedAnswers DEF StartJob
  <1>4. /\ jobRunning' = jobRunning \cup {Name} /\ Name \notin Jobs
        /\ migrators' \in {migrators, migrators \cup {Name}}
        /\ rec.status.phase # "migration" => migrators' = migrators
    BY DEF StartJob
  <1>5. /\ jobRunning' \subseteq JobNames /\ migrators' \subseteq JobNames
        /\ analyzer' \in Deployments \cup {NoDeployment} /\ image' \in Releases \cup {None}
    BY <1>1, <1>2, <1>4 DEF IInv, TypeOK
  <1>6. Disjoint'
    BY <1>1, <1>4 DEF IInv, Disjoint, Jobs
  <1>7. ASSUME NEW n \in Active'
        PROVE  n = Name /\ rec.status.phase = "migration"
    BY <1>2, <1>4, <1>7 DEF Active
  <1>8. ASSUME NEW s, SameBoundary(s, rec.status) PROVE Recorded(s)' /\ Quiesced(s)'
    <2>1. Quiesced(s)'
      BY <1>1, <1>2, <1>8 DEF Migrating, Quiesced, SameBoundary
    <2>2. JobName(s, s.target) = Name
      BY <1>8 DEF Name, JobName, SameBoundary
    <2>3. Recorded(s)'
      BY <1>2, <1>7, <1>8, <2>2 DEF Migrating, Quiesced, Recorded, SameBoundary
    <2> QED
      BY <2>1, <2>3
  <1>9. Migrating(status)'
    <2>1. SameBoundary(status', rec.status) /\ status' = status
      BY <1>1, <1>2 DEF SameBoundary
    <2> QED
      BY <1>8, <2>1 DEF Migrating
  <1>10. Migrating(rec.out)'
    <2>1. rec'.out = o
      BY <1>3 DEF Answers, IInv, TypeOK
    <2> QED
      BY <1>3, <1>8, <2>1 DEF Migrating
  <1>11. rec.pc \in {"act", "job", "commit"} /\ UNCHANGED <<jobComplete, jobFailed>>
    BY <1>1
  <1> QED
    BY <1>1, <1>3, <1>5, <1>6, <1>9, <1>10, <1>11, PassKeeps

LEMMA RunJobKeeps == ASSUME IInv, RunJob PROVE IInv'
  BY JobPassKeeps, StartJobKeeps DEF RunJob

\* Beyond the Jobs' phases nothing migrates, so a phase may do what it likes to
\* the analyzer and the image as long as it enters the migration quiesced.
LEMMA PhaseKeeps ==
  ASSUME IInv, NEW sel \in Candidates, Advances(sel), rec.status.phase # "migration",
         NEW s \in Statuses, Proceed(s) \/ Block(s),
         s.phase = "migration" => /\ s.mayHaveRun # "no"
                                  /\ serving = {} /\ analyzer'.replicas = 0,
         UNCHANGED <<policyVars, status, db, serving, running, historyVars, boundVars>>,
         UNCHANGED jobVars,
         analyzer' \in Deployments \cup {NoDeployment}, image' \in Releases \cup {None}
  PROVE  IInv'
  <1>1. rec.pc = "act" /\ Active = {} /\ status.phase # "migration"
    BY AdvanceWorks DEF SameBoundary
  <1>2. PICK o \in Statuses : Answers(o) /\ SameBoundary(o, s)
    BY BlockAnswers, ProceedAnswers
  <1>3. rec'.out = o
    BY <1>1, <1>2 DEF Answers, IInv, TypeOK
  <1>4. /\ jobRunning' \subseteq JobNames /\ UNCHANGED <<jobComplete, jobFailed>>
        /\ migrators' \subseteq JobNames /\ Disjoint' /\ Active' = {}
    BY <1>1 DEF IInv, TypeOK, jobVars, Disjoint, Active
  <1>5. Migrating(status)'
    BY <1>1, <1>4 DEF Migrating, Recorded, Quiesced
  <1>6. Migrating(rec.out)'
    BY <1>2, <1>3, <1>4 DEF Migrating, Recorded, Quiesced, SameBoundary
  <1> QED
    BY <1>1, <1>2, <1>4, <1>5, <1>6, PassKeeps

LEMMA QuiesceKeeps ==
  ASSUME IInv, NEW sel \in Candidates, Quiesce(sel),
         UNCHANGED <<policyVars, status, db, serving, running, historyVars, boundVars>>
  PROVE  IInv'
  <1>1. Advances(sel) /\ rec.status.phase = "quiesce" /\ UNCHANGED <<jobVars, image>>
    BY DEF Quiesce
  <1>2. TypeOK /\ sel \in Releases /\ hash \in Hashes /\ rec.status \in Statuses
    BY <1>1, AdvanceWorks DEF IInv
  <1>3. analyzer' \in Deployments \cup {NoDeployment} /\ analyzer'.replicas = 0
    BY <1>2, AppliedTyped DEF Quiesce, NoDeployment
  <1>4. image' \in Releases \cup {None}
    BY <1>1, <1>2 DEF TypeOK
  <1>5. PICK s \in Statuses : /\ Proceed(s)
                              /\ s.phase = "migration" => s.mayHaveRun # "no" /\ serving = {}
    <2>1. CASE analyzer'.observed /\ serving = {}
      BY <1>2, <2>1, NextPhaseTyped DEF Quiesce
    <2>2. CASE ~(analyzer'.observed /\ serving = {})
      BY <1>1, <1>2, <2>2 DEF Quiesce
    <2> QED
      BY <2>1, <2>2
  <1> QED
    BY <1>1, <1>3, <1>4, <1>5, PhaseKeeps

LEMMA RolloutKeeps ==
  ASSUME IInv, NEW sel \in Candidates, Rollout(sel),
         UNCHANGED <<policyVars, status, db, serving, running, historyVars, boundVars>>
  PROVE  IInv'
  <1>1. Advances(sel) /\ rec.status.phase = "rollout" /\ UNCHANGED <<jobVars, image>>
    BY DEF Rollout
  <1>2. TypeOK /\ sel \in Releases /\ hash \in Hashes /\ rec.status \in Statuses
    BY <1>1, AdvanceWorks DEF IInv
  <1>3. analyzer' \in Deployments \cup {NoDeployment}
    BY <1>2, AppliedTyped DEF Rollout
  <1>4. image' \in Releases \cup {None}
    BY <1>1, <1>2 DEF TypeOK
  <1>5. PICK s \in Statuses : (Proceed(s) \/ Block(s)) /\ s.phase # "migration"
    <2>1. NextPhase(rec.status, sel) \in Statuses /\ NextPhase(rec.status, sel).phase # "migration"
      BY <1>1, <1>2, NextPhaseTyped
    <2> QED
      BY <1>1, <1>2, <2>1 DEF Rollout
  <1> QED
    BY <1>1, <1>3, <1>4, <1>5, PhaseKeeps

LEMMA UpdateSupervisorKeeps ==
  ASSUME IInv, NEW sel \in Candidates, UpdateSupervisor(sel),
         UNCHANGED <<policyVars, status, db, serving, running, historyVars, boundVars>>
  PROVE  IInv'
  <1>1. Advances(sel) /\ rec.status.phase = "supervisor" /\ UNCHANGED <<jobVars, analyzer>>
    BY DEF UpdateSupervisor
  <1>2. TypeOK /\ sel \in Releases /\ rec.status \in Statuses
    BY <1>1, AdvanceWorks DEF IInv
  <1>3. analyzer' \in Deployments \cup {NoDeployment} /\ image' \in Releases \cup {None}
    BY <1>1, <1>2 DEF UpdateSupervisor, TypeOK
  <1>4. PICK s \in Statuses : (Proceed(s) \/ Block(s)) /\ s.phase # "migration"
    <2>1. NextPhase(rec.status, sel) \in Statuses /\ NextPhase(rec.status, sel).phase # "migration"
      BY <1>1, <1>2, NextPhaseTyped
    <2> QED
      BY <1>1, <1>2, <2>1 DEF UpdateSupervisor
  <1> QED
    BY <1>1, <1>3, <1>4, PhaseKeeps

LEMMA CompleteKeeps ==
  ASSUME IInv, NEW sel \in Candidates, Complete(sel),
         UNCHANGED <<policyVars, status, db, serving, running, historyVars, boundVars>>
  PROVE  IInv'
  <1>1. Advances(sel) /\ rec.status.phase = "complete" /\ UNCHANGED <<jobVars, analyzer, image>>
    BY DEF Complete
  <1>2. TypeOK /\ sel \in Releases /\ hash \in Hashes /\ rec.status \in Statuses
    BY <1>1, AdvanceWorks DEF IInv
  <1>3. analyzer' \in Deployments \cup {NoDeployment} /\ image' \in Releases \cup {None}
    BY <1>1, <1>2 DEF TypeOK
  <1>4. PICK s \in Statuses : Proceed(s) /\ s.phase # "migration"
    <2> DEFINE s == [rec.status EXCEPT !.current = sel, !.configurationHash = hash,
                        !.target = None, !.attempt = 0, !.mayHaveRun = "no",
                        !.migrationDigest = None]
    <2>1. s \in Statuses /\ s.phase = rec.status.phase
      BY <1>2 DEF Statuses
    <2>2. Proceed(s)
      BY DEF Complete
    <2> QED
      BY <1>1, <2>1, <2>2
  <1> QED
    BY <1>1, <1>3, <1>4, PhaseKeeps

LEMMA AdvanceKeeps == ASSUME IInv, Advance PROVE IInv'
  <1>1. UNCHANGED <<policyVars, status, db, serving, running, historyVars, boundVars>>
    BY DEF Advance
  <1>2. PICK sel \in Candidates :
          Quiesce(sel) \/ Rollout(sel) \/ UpdateSupervisor(sel) \/ Complete(sel)
    BY DEF Advance
  <1> QED
    BY <1>1, <1>2, QuiesceKeeps, RolloutKeeps, UpdateSupervisorKeeps, CompleteKeeps
-----------------------------------------------------------------------------
(* The steps around a pass.                                                *)
LEMMA IdleTyped == Idle \in Recs
  <1>1. EmptyStatus \in Statuses
    BY DEF EmptyStatus, Statuses
  <1>2. FirstSpec \in Spec0
    BY WorldAssumption
  <1> QED
    BY <1>1, <1>2 DEF Idle, Recs

LEMMA ListKeeps == ASSUME IInv, List PROVE IInv'
  <1>1. /\ rec' = [pc |-> "act", spec |-> spec, status |-> status, fresh |-> TRUE,
                   out |-> status, lapsed |-> None]
        /\ UNCHANGED <<policyVars, status, clusterVars, historyVars, boundVars>>
    BY DEF List
  <1>2. rec' \in Recs
    BY <1>1 DEF IInv, TypeOK, Recs
  <1>3. TypeOK'
    BY <1>1, <1>2 DEF IInv, TypeOK, Recs, policyVars, clusterVars, jobVars, analyzerVars,
                      supervisorVars, historyVars, boundVars
  <1>4. Echo' /\ Disjoint' /\ Looked' /\ Migrating(status)'
    BY <1>1 DEF IInv, Echo, SameBoundary, Disjoint, Looked, Migrating, Recorded, Quiesced,
                Active, clusterVars, jobVars, analyzerVars
  <1> QED
    BY <1>1, <1>3, <1>4 DEF IInv

LEMMA CommitKeeps == ASSUME IInv, Commit PROVE IInv'
  <1>1. /\ rec.pc = "commit" /\ rec' = Idle
        /\ UNCHANGED <<policyVars, clusterVars, boundVars>>
    BY DEF Commit
  <1>2. status' \in Statuses /\ (SameBoundary(status', rec.out) \/ status' = status)
    <2> DEFINE r == IF rec.out.retryAt = rec.status.retryAt THEN status.retryAt
                    ELSE rec.out.retryAt
    <2>1. status' = [rec.out EXCEPT !.retryAt = r] \/ status' = status
      BY DEF Commit
    <2>2. rec.out \in Statuses /\ status \in Statuses /\ r \in {"none", "waiting", "due"}
      BY DEF IInv, TypeOK, Statuses
    <2> HIDE DEF r
    <2>3. [rec.out EXCEPT !.retryAt = r] \in Statuses
          /\ SameBoundary([rec.out EXCEPT !.retryAt = r], rec.out)
      BY <2>2 DEF Statuses, SameBoundary
    <2> QED
      BY <2>1, <2>2, <2>3
  <1>3. checked' \subseteq JobPhases /\ old' \subseteq JobNames /\ vouched' \subseteq JobNames
    BY DEF Commit, IInv, TypeOK, Jobs, historyVars
  <1>4. TypeOK'
    BY <1>1, <1>2, <1>3, IdleTyped
    DEF IInv, TypeOK, Recs, policyVars, clusterVars, jobVars, analyzerVars, supervisorVars,
        boundVars
  <1>5. Migrating(status)'
    <2>1. Migrating(rec.out) /\ Migrating(status)
      BY <1>1 DEF IInv
    <2> QED
      BY <1>1, <1>2, <2>1
      DEF SameBoundary, Migrating, Recorded, Quiesced, JobName, Active, clusterVars, jobVars,
          analyzerVars
  <1>6. Echo' /\ Disjoint' /\ Looked' /\ rec'.pc = "idle"
    BY <1>1 DEF IInv, Echo, Disjoint, Looked, Idle, clusterVars, jobVars
  <1> QED
    BY <1>4, <1>5, <1>6 DEF IInv

LEMMA StopStartKeeps == ASSUME IInv, Crash \/ Restart \/ ReplacePod PROVE IInv'
  <1>1. /\ rec' \in {Idle, [Idle EXCEPT !.pc = "down"]} /\ faults' \in Nat
        /\ running' \in Releases \cup {None}
        /\ UNCHANGED <<policyVars, status, jobVars, db, analyzerVars, image, historyVars, edits>>
    BY DEF Crash, Restart, ReplacePod, IInv, TypeOK, clusterVars, supervisorVars, boundVars
  <1>2. rec' \in Recs /\ rec'.pc \in {"idle", "down"}
    BY <1>1, IdleTyped DEF Idle, Recs
  <1>3. TypeOK'
    BY <1>1, <1>2 DEF IInv, TypeOK, Recs, policyVars, jobVars, analyzerVars, historyVars
  <1>4. Echo' /\ Disjoint' /\ Looked' /\ Migrating(status)'
    BY <1>1, <1>2 DEF IInv, Echo, Disjoint, Looked, Migrating, Recorded, Quiesced, Active,
                      jobVars, analyzerVars
  <1> QED
    BY <1>2, <1>3, <1>4 DEF IInv

LEMMA RetryElapsesKeeps == ASSUME IInv, RetryElapses PROVE IInv'
  <1>1. /\ status' \in Statuses /\ SameBoundary(status', status)
        /\ UNCHANGED <<policyVars, rec, clusterVars, historyVars, boundVars>>
    <2>1. status \in Statuses /\ status' = [status EXCEPT !.retryAt = "due"]
      BY DEF RetryElapses, IInv, TypeOK
    <2> QED
      BY <2>1 DEF RetryElapses, Statuses, SameBoundary
  <1>2. TypeOK'
    BY <1>1 DEF IInv, TypeOK, policyVars, clusterVars, jobVars, analyzerVars, supervisorVars,
                historyVars, boundVars
  <1>3. Echo' /\ Disjoint' /\ Looked'
    BY <1>1 DEF IInv, Echo, Disjoint, Looked, PauseRequested, Paused, SameBoundary, clusterVars,
                jobVars
  <1>4. Migrating(status)' /\ (rec'.pc = "commit" => Migrating(rec.out)')
    BY <1>1 DEF IInv, SameBoundary, Migrating, Recorded, Quiesced, JobName, Active,
                clusterVars, jobVars, analyzerVars
  <1> QED
    BY <1>2, <1>3, <1>4 DEF IInv

LEMMA EditKeeps == ASSUME IInv, Operator PROVE IInv'
  <1>1. UNCHANGED <<status, clusterVars, historyVars, faults>>
    BY DEF Operator, EditSpec, EditReferences, EditConfirmation
  <1>2. spec' \in Spec0 /\ revision' \in Nat /\ catalog' \subseteq Releases
        /\ confirmed' \in Releases \cup {None} /\ edits' \in Nat
    BY WorldAssumption, ReleaseAssumption DEF Operator, EditSpec, EditReferences,
        EditConfirmation, IInv, TypeOK
  <1>3. /\ rec' \in Recs /\ rec'.pc = rec.pc /\ rec'.spec = rec.spec
        /\ rec'.status = rec.status /\ rec'.out = rec.out
    BY DEF Operator, EditSpec, EditReferences, EditConfirmation, IInv, TypeOK, Recs
  <1>4. TypeOK'
    BY <1>1, <1>2, <1>3 DEF IInv, TypeOK, Recs, clusterVars, jobVars, analyzerVars,
                            supervisorVars, historyVars
  <1>5. Echo' /\ Disjoint' /\ Looked'
    BY <1>1, <1>3 DEF IInv, Echo, Disjoint, Looked, PauseRequested, Paused, SameBoundary,
                      clusterVars, jobVars
  <1>6. Migrating(status)' /\ (rec'.pc = "commit" => Migrating(rec.out)')
    BY <1>1, <1>3 DEF IInv, Migrating, Recorded, Quiesced, Active, clusterVars, jobVars,
                      analyzerVars
  <1> QED
    BY <1>4, <1>5, <1>6 DEF IInv

-----------------------------------------------------------------------------
(* The world: no Job appears, and no Pod while the analyzer is scaled down. *)
LEMMA WorldKeeps ==
  ASSUME IInv, TypeOK', Disjoint', UNCHANGED <<status, rec>>, Active' \subseteq Active,
         (serving = {} /\ analyzer.replicas = 0) => (serving' = {} /\ analyzer'.replicas = 0)
  PROVE  IInv'
  BY DEF IInv, Echo, Looked, PauseRequested, Paused, SameBoundary, Migrating, Recorded, Quiesced

LEMMA JobStepKeeps ==
  ASSUME IInv, MigrateSchema \/ JobCompletes \/ JobFails \/ JobDeleted \/ MigratorExits
  PROVE  IInv'
  <1>1. /\ jobRunning' \subseteq jobRunning /\ migrators' \subseteq migrators
        /\ jobComplete' \subseteq Jobs /\ jobFailed' \subseteq Jobs
        /\ db' \in Nat /\ faults' \in Nat /\ checked' \subseteq JobPhases
        /\ UNCHANGED <<policyVars, status, rec, analyzerVars, supervisorVars, old, vouched, edits>>
    <2>1. CASE MigrateSchema
      <3>1. PICK n \in migrators : db' = SchemaTo[n.release]
        BY <2>1 DEF MigrateSchema
      <3>2. db' \in Nat
        BY <3>1, ReleaseAssumption DEF IInv, TypeOK, JobNames
      <3> QED
        BY <2>1, <3>2 DEF MigrateSchema, jobVars, historyVars, boundVars, IInv, TypeOK, Jobs
    <2>2. CASE JobCompletes
      <3>1. PICK n \in jobRunning :
              /\ jobRunning' = jobRunning \ {n} /\ jobComplete' = jobComplete \cup {n}
              /\ migrators' = migrators \ {n}
              /\ checked' = IF n \in old THEN checked ELSE checked \cup {n.phase}
        BY <2>2 DEF JobCompletes
      <3>2. n.phase \in JobPhases
        BY DEF IInv, TypeOK, JobNames
      <3>3. checked' \subseteq JobPhases
        BY <3>1, <3>2 DEF IInv, TypeOK
      <3>4. /\ UNCHANGED <<policyVars, status, rec, analyzerVars, supervisorVars, old, vouched, edits>>
            /\ UNCHANGED <<jobFailed, db, faults>>
        BY <2>2 DEF JobCompletes, boundVars
      <3> QED
        BY <3>1, <3>3, <3>4 DEF IInv, TypeOK, Jobs
    <2>3. CASE JobFails \/ JobDeleted \/ MigratorExits
      BY <2>3 DEF JobFails, JobDeleted, MigratorExits, historyVars, boundVars, IInv, TypeOK,
                  Jobs
    <2> QED
      BY <2>1, <2>2, <2>3
  <1>2. Disjoint'
    BY DEF MigrateSchema, JobCompletes, JobFails, JobDeleted, MigratorExits, jobVars, IInv,
           Disjoint
  <1>3. TypeOK'
    BY <1>1 DEF IInv, TypeOK, Jobs, policyVars, analyzerVars, supervisorVars
  <1>4. Active' \subseteq Active
    BY <1>1 DEF Active
  <1> QED
    BY <1>1, <1>2, <1>3, <1>4, WorldKeeps DEF analyzerVars

LEMMA PodStepKeeps ==
  ASSUME IInv, DeploymentObserved \/ PodExits \/ PodStarts \/ PodAvailable \/ PodFails
  PROVE  IInv'
  <1>1. /\ analyzer' \in Deployments \cup {NoDeployment} /\ analyzer'.replicas = analyzer.replicas
        /\ faults' \in Nat
        /\ UNCHANGED <<policyVars, status, rec, jobVars, db, supervisorVars, historyVars, edits>>
    <2>1. analyzer \in Deployments \cup {NoDeployment}
      BY DEF IInv, TypeOK
    <2>3. ASSUME analyzer \in Deployments, NEW a \in BOOLEAN, NEW e \in BOOLEAN
          PROVE  /\ [analyzer EXCEPT !.available = a, !.expired = e] \in Deployments
                 /\ [analyzer EXCEPT !.available = a] \in Deployments
                 /\ [analyzer EXCEPT !.expired = e] \in Deployments
                 /\ [analyzer EXCEPT !.available = a, !.expired = e].replicas = analyzer.replicas
                 /\ [analyzer EXCEPT !.available = a].replicas = analyzer.replicas
                 /\ [analyzer EXCEPT !.expired = e].replicas = analyzer.replicas
      BY <2>3 DEF Deployments
    <2>4. CASE DeploymentObserved
      <3>1. analyzer \in Deployments
        BY <2>1, <2>4 DEF DeploymentObserved, NoDeployment
      <3>2. /\ [analyzer EXCEPT !.observed = TRUE] \in Deployments
            /\ [analyzer EXCEPT !.observed = TRUE].replicas = analyzer.replicas
        BY <3>1 DEF Deployments
      <3> QED
        BY <2>4, <3>2 DEF DeploymentObserved, boundVars, IInv, TypeOK
    <2>5. CASE PodExits \/ PodStarts
      BY <2>1, <2>5 DEF PodExits, PodStarts, boundVars, IInv, TypeOK
    <2>6. CASE PodAvailable
      <3>1. analyzer.replicas # 0
        BY <2>6 DEF PodAvailable, Wanted
      <3>2. analyzer \in Deployments
        BY <2>1, <3>1 DEF NoDeployment
      <3> QED
        BY <2>3, <2>6, <3>2 DEF PodAvailable, boundVars, IInv, TypeOK
    <2>7. CASE PodFails
      <3>1. analyzer \in Deployments
        BY <2>1, <2>7 DEF PodFails, NoDeployment
      <3>2. \/ analyzer' = [analyzer EXCEPT !.available = FALSE]
            \/ analyzer' = [analyzer EXCEPT !.expired = TRUE]
        BY <2>7 DEF PodFails
      <3>3. analyzer' \in Deployments /\ analyzer'.replicas = analyzer.replicas
        BY <2>3, <3>1, <3>2
      <3> QED
        BY <2>7, <3>3 DEF PodFails, IInv, TypeOK
    <2> QED
      BY <2>4, <2>5, <2>6, <2>7
  <1>2. serving' \subseteq Pods
    <2>1. Wanted \subseteq Pods
      BY DEF Wanted, IInv, TypeOK, Deployments, NoDeployment, Pods
    <2> QED
      BY <2>1 DEF DeploymentObserved, PodExits, PodStarts, PodAvailable, PodFails, IInv, TypeOK
  <1>3. (serving = {} /\ analyzer.replicas = 0) => serving' = {}
    BY DEF DeploymentObserved, PodExits, PodStarts, PodAvailable, PodFails, Wanted
  <1>4. TypeOK'
    BY <1>1, <1>2 DEF IInv, TypeOK, policyVars, jobVars, supervisorVars, historyVars
  <1>5. Disjoint' /\ Active' \subseteq Active
    BY <1>1 DEF IInv, Disjoint, Active, jobVars
  <1> QED
    BY <1>1, <1>3, <1>4, <1>5, WorldKeeps

-----------------------------------------------------------------------------
LEMMA InitIInv == Init => IInv
  <1> SUFFICES ASSUME Init PROVE IInv
    OBVIOUS
  <1>1. FirstHash \in Hashes /\ FirstSpec \in Spec0
    BY WorldAssumption DEF FirstHash, Hashes, Spec0
  <1>2. EmptyStatus \in Statuses /\ EmptyStatus.phase = "none"
    BY DEF EmptyStatus, Statuses
  <1>3. ASSUME NEW r \in Releases
        PROVE  /\ InstalledStatus(r, FirstHash) \in Statuses
               /\ InstalledStatus(r, FirstHash).phase = "complete"
    BY <1>1, <1>2 DEF InstalledStatus, Statuses, Phases
  <1>4. ASSUME NEW r \in Releases, NEW t \in Releases
        PROVE  /\ InterruptedStatus(r, t, FirstHash) \in Statuses
               /\ InterruptedStatus(r, t, FirstHash).mayHaveRun # "no"
    BY <1>3, ZenonT(60) DEF InterruptedStatus, Statuses, Phases
  <1>5. PICK start \in Starts : StartsFrom(start.installed, start.interrupted)
    BY DEF Init
  <1> DEFINE at == start.installed
             to == start.interrupted
  <1>6. /\ at \in Releases \cup {None} /\ to \in Releases \cup {None}
        /\ to # None => at \notin {None, to}
    BY WorldAssumption
  <1>7. StartsFrom(at, to)
    BY <1>5
  <1> HIDE DEF at, to
  <1>8. status \in Statuses
    BY <1>2, <1>3, <1>4, <1>6, <1>7 DEF StartsFrom
  <1>9. db \in Nat
    BY <1>6, <1>7, ReleaseAssumption DEF StartsFrom
  <1>10. analyzer \in Deployments \cup {NoDeployment} /\ serving \subseteq Pods
    BY <1>1, <1>6, <1>7 DEF StartsFrom, Deployments, Pods
  <1>11. image \in Releases \cup {None} /\ running \in Releases \cup {None}
         /\ checked \subseteq JobPhases
    BY <1>6, <1>7 DEF StartsFrom, JobPhases
  <1>12. TypeOK
    BY <1>1, <1>8, <1>9, <1>10, <1>11, IdleTyped, WorldAssumption, ReleaseAssumption
    DEF Init, TypeOK, Recs
  <1>13. Migrating(status)
    <2>1. Active = {}
      BY DEF Init, Active
    <2>2. CASE to = None
      BY <1>2, <1>3, <1>6, <1>7, <2>1, <2>2
      DEF Init, StartsFrom, Migrating, Recorded, Quiesced
    <2>3. CASE to # None
      BY <1>2, <1>4, <1>6, <1>7, <2>1, <2>3
      DEF Init, StartsFrom, Migrating, Recorded, Quiesced, NoDeployment
    <2> QED
      BY <2>2, <2>3
  <1>14. Echo /\ Disjoint /\ Looked /\ rec.pc = "idle"
    BY DEF Init, Idle, Echo, Disjoint, Looked
  <1> QED
    BY <1>12, <1>13, <1>14 DEF IInv

LEMMA NextKeeps == IInv /\ [Next]_vars => IInv'
  <1> SUFFICES ASSUME IInv, [Next]_vars PROVE IInv'
    OBVIOUS
  <1>1. CASE Reconcile
    BY <1>1, StopKeeps, DigestChangedKeeps, ReplaceTargetKeeps, BeginTransitionKeeps,
       RebaseKeeps, MaintainKeeps, LookForJobKeeps, RunJobKeeps, AdvanceKeeps DEF Reconcile
  <1>2. CASE Process /\ ~Reconcile
    BY <1>2, ListKeeps, CommitKeeps, StopStartKeeps, RetryElapsesKeeps DEF Process
  <1>3. CASE Faults
    BY <1>3, StopKeeps, StopStartKeeps, JobStepKeeps, PodStepKeeps DEF Faults
  <1>4. CASE Operator
    BY <1>4, EditKeeps
  <1>5. CASE Workloads
    BY <1>5, JobStepKeeps, PodStepKeeps DEF Workloads
  <1>6. CASE UNCHANGED vars
    BY <1>6 DEF vars, policyVars, clusterVars, jobVars, analyzerVars, supervisorVars,
                historyVars, boundVars, IInv, TypeOK, Echo, Looked, PauseRequested, Paused,
                SameBoundary, Disjoint, Migrating, Recorded, Quiesced, Active
  <1> QED
    BY <1>1, <1>2, <1>3, <1>4, <1>5, <1>6 DEF Next

LEMMA Inductive == Spec => []IInv
  BY InitIInv, NextKeeps, PTL DEF Spec

-----------------------------------------------------------------------------
\* The status, the names of Jobs, the Deployments and the supervisor's own
\* record keep their types through every pass, fault and edit.
THEOREM TypeCorrect == Spec => []TypeOK
  BY Inductive, PTL DEF IInv

\* While a migration Pod runs there is neither an analyzer Pod nor another
\* migration Pod (Advance's quiesce and migration phases, job's Pod check),
\* for any releases and any number of faults and edits.
THEOREM MigrationIsExclusive == Spec => []MigrationExclusive
  <1>1. IInv => MigrationExclusive
    BY DEF IInv, Migrating, Recorded, Quiesced, MigrationExclusive, Active
  <1> QED
    BY <1>1, Inductive, PTL

\* While a migration Job or its Pod is active the stored status is past the
\* migration boundary and names it (migrationMayHaveRun in Advance).
THEOREM MigrationIsRecorded == Spec => []MigrationRecorded
  <1>1. IInv => MigrationRecorded
    BY DEF IInv, Migrating, Recorded, MigrationRecorded, Active, JobName
  <1> QED
    BY <1>1, Inductive, PTL
=============================================================================
