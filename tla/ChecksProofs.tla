---------------------------- MODULE ChecksProofs ----------------------------
(***************************************************************************)
(* Proofs about what a transition of Supervisor has checked and what its   *)
(* Ready condition says: each phase beyond preflight, migration and verify *)
(* was reached on a Job of this transition, and Ready is reported only of  *)
(* the Deployment that is there.                                           *)
(*                                                                         *)
(* The first rests on the transition ID: Jobs that existed when the checks *)
(* began anew have lower IDs (Older), and a completed Job with the present *)
(* ID has completed since (Counted).  The second rests on the phase: from  *)
(* the end of the rollout to the installation nothing but the rollout      *)
(* itself applies the analyzer (Deployed), as a transition that has come   *)
(* this far can no longer be cancelled by a pause (Marked).                *)
(***************************************************************************)
EXTENDS TransitionProofs

\* FreshChecks, of any status.
Fresh(s) ==
    s.target # None =>
        /\ s.phase \notin {"preflight", "none"} => "preflight" \in checked
        /\ (s.phase \in {"rollout", "verify", "supervisor", "complete"}
              /\ s.target # s.current) => "migration" \in checked
        /\ s.phase \in {"supervisor", "complete"} => "verify" \in checked
Older == status.target # None => \A n \in old : n.transitionID < status.transitionID
Counted ==
    status.target # None =>
        \A n \in jobComplete : n.transitionID = status.transitionID => n.phase \in checked
ChecksInv ==
    /\ Fresh(status) /\ Older /\ Counted
    /\ rec.pc = "commit" => Fresh(rec.out)

\* The analyzer's Deployment is that of the release r under configuration h.
Is(r, h) == analyzer.replicas = 1 /\ analyzer.release = r /\ analyzer.hash = h
ReadyFits(s) ==
    s.ready => /\ s.phase = "complete"
               /\ s.target = None => Is(s.current, s.configurationHash)
               /\ s.target # None => Is(s.target, s.transitionHash)
Deployed(s) ==
    (s.target # None /\ s.phase \in {"verify", "supervisor", "complete"})
      => Is(s.target, s.transitionHash)
Marked(s) ==
    (s.target \notin {None, s.current}
       /\ s.phase \in {"migration", "rollout", "verify", "supervisor", "complete"})
      => s.mayHaveRun # "no"
Honest(s) == ReadyFits(s) /\ Deployed(s) /\ Marked(s)
ReadyInv == Honest(status) /\ (rec.pc = "commit" => Honest(rec.out))

-----------------------------------------------------------------------------
(* Fresh checks.                                                           *)
LEMMA SameFresh == ASSUME NEW s, NEW t, SameRecord(s, t) PROVE Fresh(s) <=> Fresh(t)
  BY DEF SameRecord, Fresh

\* A pass enters the next phase on a Job that has been counted.
LEMMA OutcomeFresh ==
  ASSUME IInv, TInv, ChecksInv, rec.pc \in {"act", "job", "commit"},
         NEW o \in Statuses, Outcome(o)
  PROVE  Fresh(o)
  <1> DEFINE s == rec.status
  <1>1. TypeOK /\ s \in Statuses /\ SameRecord(s, status) /\ Fresh(s)
    BY SameFresh DEF IInv, TInv, Mirror, TypeOK, ChecksInv
  <1>2. CASE Stays(o)
    BY <1>1, <1>2, SameFresh DEF Stays
  <1>3. CASE GivesUp(o) \/ Settles(o) \/ Opens(o) \/ Drops(o) \/ Rebases(o) \/ Completes(o)
    BY <1>1, <1>3, WorkRecord
    DEF GivesUp, Settles, Opens, Drops, Rebases, Completes, SameRecord, Fresh
  <1>4. CASE Passes(o)
    <2>1. /\ s.target \in Releases /\ s.target # None /\ o.target = s.target
          /\ o.current = s.current /\ o.phase = PhaseAfter(s, s.target)
          /\ s.phase \in {"preflight", "quiesce", "migration", "rollout", "verify", "supervisor"}
      BY <1>4, ReleaseAssumption DEF Passes
    <2>2. s.phase \in JobPhases => s.phase \in checked
      <3>1. SUFFICES ASSUME s.phase \in JobPhases PROVE s.phase \in checked
        OBVIOUS
      <3>2. /\ Name \in jobComplete /\ Name.phase = s.phase
            /\ Name.transitionID = s.transitionID
        BY <1>4, <3>1 DEF Passes, Name, JobName
      <3> QED
        BY <1>1, <2>1, <3>2 DEF ChecksInv, Counted, SameRecord
    <2> QED
      BY <1>1, <2>1, <2>2 DEF Fresh, PhaseAfter, JobPhases
  <1> QED
    BY <1>2, <1>3, <1>4 DEF Outcome

\* Steps that leave the status, complete no Job and forget no check.
LEMMA QuietKeepsChecks ==
  ASSUME ChecksInv, SameRecord(status', status), UNCHANGED <<checked, old>>,
         jobComplete' \subseteq jobComplete,
         rec'.pc = "commit" => Fresh(rec'.out)
  PROVE  ChecksInv'
  BY DEF ChecksInv, Fresh, Older, Counted, SameRecord

LEMMA CommitKeepsChecks == ASSUME IInv, TInv, ChecksInv, Commit PROVE ChecksInv'
  <1>1. /\ rec.pc = "commit" /\ rec'.pc = "idle" /\ UNCHANGED <<jobComplete, jobRunning, jobFailed>>
    BY CommitRecord DEF Commit, Idle, clusterVars, jobVars
  <1> DEFINE Anew == /\ status'.phase = "preflight"
                     /\ \/ status.phase # "preflight" \/ status'.target # status.target
                        \/ status'.transitionHash # status.transitionHash
  <1>2. IF Anew THEN checked' = {} /\ old' = Jobs ELSE UNCHANGED <<checked, old>>
    BY DEF Commit, historyVars
  <1>3. CASE ~rec.fresh
    <2>1. status' = status /\ ~Anew
      BY <1>3, CommitRecord
    <2>2. SameRecord(status', status)
      BY <2>1 DEF SameRecord
    <2> QED
      BY <1>1, <1>2, <2>1, <2>2, QuietKeepsChecks
  <1>4. CASE rec.fresh
    <2>1. /\ SameRecord(status', rec.out) /\ Renews(status, rec.out) /\ Fresh(rec.out)
      BY <1>1, <1>4, CommitRecord DEF TInv, Decided, ChecksInv
    <2>2. /\ status.transitionID \in Nat /\ rec.out.transitionID \in Nat
          /\ \A n \in Jobs : n.transitionID \in Nat /\ n.transitionID <= status.transitionID
      BY StatusFields DEF IInv, TypeOK, TInv, JobsKnown, Jobs, JobNames
    <2>3. CASE Anew
      <3>1. status'.target # None => rec.out.transitionID > status.transitionID
        BY <2>1, <2>3 DEF SameRecord, Renews
      <3>2. status'.target # None => \A n \in Jobs : n.transitionID < status'.transitionID
        BY <2>1, <2>2, <3>1 DEF SameRecord
      <3>3. Fresh(status)'
        BY <2>3 DEF Fresh
      <3> QED
        BY <1>1, <1>2, <2>2, <2>3, <3>2, <3>3 DEF ChecksInv, Older, Counted, Jobs
    <2>4. CASE ~Anew
      <3>1. Fresh(status)'
        BY <1>2, <2>1, <2>4, SameFresh DEF Fresh, SameRecord
      <3>2. status'.target # None => /\ status.target = status'.target
                                     /\ status.transitionID = status'.transitionID
        BY <2>1, <2>4 DEF SameRecord, Renews
      <3> QED
        BY <1>1, <1>2, <2>4, <3>1, <3>2 DEF ChecksInv, Older, Counted
    <2> QED
      BY <2>3, <2>4
  <1> QED
    BY <1>3, <1>4

LEMMA JobCompletesKeepsChecks == ASSUME IInv, ChecksInv, JobCompletes PROVE ChecksInv'
  <1>1. PICK n \in jobRunning :
          /\ jobComplete' = jobComplete \cup {n}
          /\ checked' = IF n \in old THEN checked ELSE checked \cup {n.phase}
    BY DEF JobCompletes
  <1>2. UNCHANGED <<status, rec, old>> /\ checked \subseteq checked'
    BY <1>1 DEF JobCompletes
  <1>3. (status.target # None /\ n.transitionID = status.transitionID) => n.phase \in checked'
    BY <1>1, StatusFields DEF ChecksInv, Older, IInv, TypeOK
  <1>4. Counted'
    BY <1>1, <1>2, <1>3 DEF ChecksInv, Counted
  <1> QED
    BY <1>2, <1>4 DEF ChecksInv, Fresh, Older

LEMMA NextKeepsChecks == IInv /\ TInv /\ ChecksInv /\ [Next]_vars => ChecksInv'
  <1> SUFFICES ASSUME IInv, TInv, ChecksInv, [Next]_vars PROVE ChecksInv'
    OBVIOUS
  <1>1. CASE Reconcile \/ Refuse \/ LoseReply
    <2>1. UNCHANGED <<status, checked, old, jobComplete>> /\ rec.pc \in {"act", "job", "commit"}
      BY <1>1, PassOutcome DEF Refuse, LoseReply, clusterVars, jobVars, historyVars
    <2>2. CASE \E o \in Statuses : Answers(o) /\ Outcome(o)
      <3>1. PICK o \in Statuses : Answers(o) /\ Outcome(o)
        BY <2>2
      <3>2. Fresh(o) /\ rec'.out = o
        BY <2>1, <3>1, OutcomeFresh DEF Answers, IInv, TypeOK
      <3> QED
        BY <2>1, <3>2, QuietKeepsChecks DEF SameRecord
    <2>3. CASE Looks
      <3>1. rec'.pc = "job"
        BY <2>3 DEF Looks, IInv, TypeOK
      <3> QED
        BY <2>1, <3>1, QuietKeepsChecks DEF SameRecord
    <2> QED
      BY <1>1, <2>2, <2>3, PassOutcome, StopOutcome DEF Outcome
  <1>2. CASE RetryElapses
    BY <1>2, RetryRecord, QuietKeepsChecks
    DEF ChecksInv, clusterVars, jobVars, historyVars
  <1>3. CASE Commit
    BY <1>3, CommitKeepsChecks
  <1>4. CASE JobCompletes
    BY <1>4, JobCompletesKeepsChecks
  <1>5. CASE ~(Reconcile \/ Refuse \/ LoseReply \/ RetryElapses \/ Commit \/ JobCompletes)
    <2>1. UNCHANGED <<status, checked, old>> /\ jobComplete' \subseteq jobComplete
      BY <1>5
      DEF Next, Process, Faults, Operator, Workloads, List, Restart, ReplacePod, Crash,
          JobDeleted, PodFails, EditSpec, EditReferences, EditConfirmation, MigrateSchema,
          JobFails, MigratorExits, DeploymentObserved, PodExits, PodStarts, PodAvailable,
          vars, clusterVars, jobVars, historyVars
    <2>2. rec'.pc = "commit" => rec.pc = "commit" /\ rec'.out = rec.out
      BY <1>5
      DEF Next, Process, Faults, Operator, Workloads, List, Restart, ReplacePod, Crash,
          JobDeleted, PodFails, EditSpec, EditReferences, EditConfirmation, MigrateSchema,
          JobFails, MigratorExits, DeploymentObserved, PodExits, PodStarts, PodAvailable,
          vars, Idle, IInv, TypeOK
    <2> QED
      BY <2>1, <2>2, QuietKeepsChecks DEF ChecksInv, SameRecord
  <1> QED
    BY <1>1, <1>2, <1>3, <1>4, <1>5

LEMMA InitChecks == Init => ChecksInv
  <1> SUFFICES ASSUME Init PROVE ChecksInv
    OBVIOUS
  <1>1. PICK start \in Starts : StartsFrom(start.installed, start.interrupted)
    BY DEF Init
  <1> DEFINE at == start.installed
             to == start.interrupted
  <1>2. /\ at \in Releases \cup {None} /\ to \in Releases \cup {None}
        /\ to # None => at \notin {None, to}
    BY WorldAssumption
  <1>3. StartsFrom(at, to)
    BY <1>1
  <1> HIDE DEF at, to
  <1>4. rec.pc = "idle" /\ jobComplete = {} /\ old = {}
    BY DEF Init, Idle
  <1>5. CASE to = None
    BY <1>3, <1>4, <1>5
    DEF StartsFrom, InstalledStatus, EmptyStatus, ChecksInv, Fresh, Older, Counted
  <1>6. CASE to # None
    <2>1. status = InterruptedStatus(at, to, FirstHash) /\ checked = {"preflight"}
      BY <1>2, <1>3, <1>6 DEF StartsFrom
    <2>2. status.phase = "migration"
      BY <2>1, ZenonT(60) DEF InterruptedStatus, InstalledStatus, EmptyStatus
    <2> QED
      BY <1>4, <2>1, <2>2 DEF ChecksInv, Fresh, Older, Counted
  <1> QED
    BY <1>5, <1>6

\* A transition passes preflight, migration and verify only on Jobs that have
\* completed since it began, or since its configuration last changed (the
\* transitionID in the Jobs' names), for any releases, faults and edits.
THEOREM ChecksAreFresh == Spec => []FreshChecks
  <1>1. ChecksInv => FreshChecks
    BY DEF ChecksInv, Fresh, FreshChecks
  <1> QED
    BY <1>1, InitChecks, NextKeepsChecks, RulesHold, PTL DEF Spec

-----------------------------------------------------------------------------
(* The Ready condition.                                                    *)
LEMMA SameHonest ==
  ASSUME NEW s, NEW t, SameRecord(s, t), s.ready => t.ready, Honest(t)
  PROVE  Honest(s)
  BY DEF SameRecord, Honest, ReadyFits, Deployed, Marked

LEMMA AppliedIs ==
  ASSUME NEW r, NEW h, NEW n, analyzer' = Applied(r, h, n)
  PROVE  analyzer'.release = r /\ analyzer'.hash = h /\ analyzer'.replicas = n
  BY DEF Applied

\* The analyzer is applied only while the status is neither ready nor deployed,
\* or as the installed release has it.
LEMMA WritesHonest ==
  ASSUME IInv, TInv, Honest(status), rec.pc \in {"act", "job"}, Writes, UNCHANGED status
  PROVE  Honest(status)'
  <1> DEFINE s == rec.status
  <1>1. TypeOK /\ s \in Statuses /\ SameRecord(s, status)
    BY DEF IInv, TInv, Mirror, TypeOK
  <1>2. Marked(status)'
    BY DEF Honest, Marked
  <1>3. CASE analyzer' = analyzer
    BY <1>3 DEF Honest, ReadyFits, Deployed, Marked, Is
  <1>4. CASE /\ PauseRequested => MayCancel
             /\ work.current # None /\ work.target = None /\ Settled(work, work.current)
             /\ analyzer' = Applied(work.current, hash, 1)
    <2>1. CASE PauseRequested
      <3>1. /\ status.target \notin {None, status.current}
            /\ status.phase \notin {"complete", "verify", "supervisor"}
        BY <1>1, <1>4, <2>1 DEF PauseRequested, MayCancel, SameRecord, Honest, Marked
      <3>2. ~status.ready
        BY <3>1 DEF Honest, ReadyFits
      <3> QED
        BY <1>2, <3>1, <3>2 DEF Honest, ReadyFits, Deployed
    <2>2. CASE ~PauseRequested
      <3>1. /\ work = s /\ status.target = None /\ status.current = work.current
            /\ status.configurationHash = hash
        BY <1>1, <1>4, <2>2, WorkRecord DEF SameRecord, Settled
      <3>2. Is(status.current, status.configurationHash)'
        BY <1>4, <3>1, AppliedIs DEF Is
      <3> QED
        BY <1>2, <3>1, <3>2 DEF Honest, ReadyFits, Deployed
    <2> QED
      BY <2>1, <2>2
  <1>5. CASE s.phase \in {"quiesce", "rollout"}
    <2>1. status.phase \in {"quiesce", "rollout"} /\ ~status.ready
      BY <1>1, <1>5 DEF SameRecord, Honest, ReadyFits
    <2> QED
      BY <1>2, <2>1 DEF Honest, ReadyFits, Deployed
  <1> QED
    BY <1>3, <1>4, <1>5 DEF Writes

\* What a pass decides says of the analyzer what it has just made of it.
LEMMA OutcomeHonest ==
  ASSUME IInv, TInv, Honest(status), rec.pc \in {"act", "job"},
         NEW o \in Statuses, Outcome(o), Writes, UNCHANGED status
  PROVE  Honest(o)'
  <1> DEFINE s == rec.status
  <1>1. TypeOK /\ s \in Statuses /\ SameRecord(s, status) /\ Honest(status)'
    BY WritesHonest DEF IInv, TInv, Mirror, TypeOK
  <1>2. CASE Stays(o)
    BY <1>1, <1>2 DEF Stays, SameRecord, Honest, ReadyFits, Deployed, Marked, Is
  <1>3. CASE GivesUp(o)
    BY <1>1, <1>3, WorkRecord DEF GivesUp, SameRecord, Honest, ReadyFits, Deployed, Marked
  <1>4. CASE Settles(o)
    <2>1. /\ o.target = None /\ o.phase = "complete" /\ o.current = work.current
          /\ o.configurationHash = hash
      BY <1>4 DEF Settles, Settled, SameRecord
    <2>2. Is(o.current, o.configurationHash)'
      BY <1>4, <2>1, AppliedIs DEF Settles, Is
    <2> QED
      BY <2>1, <2>2 DEF Honest, ReadyFits, Deployed, Marked
  <1>5. CASE Opens(o) \/ Drops(o) \/ Rebases(o)
    BY <1>5 DEF Opens, Drops, Rebases, Honest, ReadyFits, Deployed, Marked
  <1>6. CASE Passes(o)
    <2>1. /\ s.target \in Releases /\ s.target # None /\ o.target = s.target
          /\ o.current = s.current /\ o.phase = PhaseAfter(s, s.target)
          /\ o.transitionHash = s.transitionHash
          /\ o.ready => o.phase = "complete"
          /\ s.phase \in {"preflight", "quiesce", "migration", "rollout", "verify", "supervisor"}
      BY <1>6, ReleaseAssumption DEF Passes
    <2>2. Marked(o)
      BY <1>1, <1>6, <2>1 DEF Passes, PhaseAfter, SameRecord, Honest, Marked
    <2>3. o.phase \in {"verify", "supervisor", "complete"} => Is(o.target, o.transitionHash)'
      <3>1. CASE s.phase = "rollout"
        BY <1>6, <2>1, <3>1, AppliedIs DEF Passes, Scales, Is
      <3>2. CASE s.phase \in {"verify", "supervisor"}
        BY <1>1, <2>1, <3>2 DEF SameRecord, Honest, Deployed, Is
      <3> QED
        BY <2>1, <3>1, <3>2 DEF PhaseAfter
    <2> QED
      BY <2>1, <2>2, <2>3 DEF Honest, ReadyFits, Deployed, Marked
  <1>7. CASE Completes(o)
    <2>1. /\ s.target # None /\ s.phase = "complete" /\ s.transitionHash = hash
          /\ o.target = None /\ o.phase = "complete" /\ o.current = s.target
          /\ o.configurationHash = hash
      BY <1>7, ReleaseAssumption DEF Completes
    <2>2. Is(o.current, o.configurationHash)'
      BY <1>1, <2>1 DEF SameRecord, Honest, Deployed, Is
    <2> QED
      BY <2>1, <2>2 DEF Honest, ReadyFits, Deployed, Marked
  <1> QED
    BY <1>2, <1>3, <1>4, <1>5, <1>6, <1>7 DEF Outcome

\* Steps that leave the template of the analyzer alone.
LEMMA QuietKeepsReady ==
  ASSUME ReadyInv, SameRecord(status', status), status'.ready = status.ready,
         analyzer'.release = analyzer.release, analyzer'.hash = analyzer.hash,
         analyzer'.replicas = analyzer.replicas,
         rec'.pc = "commit" => rec.pc = "commit" /\ rec'.out = rec.out
  PROVE  ReadyInv'
  BY DEF ReadyInv, SameRecord, Honest, ReadyFits, Deployed, Marked, Is

LEMMA PassKeepsReady ==
  ASSUME IInv, TInv, ReadyInv, Reconcile \/ Refuse \/ LoseReply PROVE ReadyInv'
  <1>1. CASE Reconcile
    <2>1. UNCHANGED status /\ rec.pc \in {"act", "job"}
      BY <1>1, PassOutcome
    <2>2. CASE \E o \in Statuses : Answers(o) /\ Outcome(o) /\ Writes
      <3>1. PICK o \in Statuses : Answers(o) /\ Outcome(o) /\ Writes
        BY <2>2
      <3>2. rec'.out = o
        BY <3>1 DEF Answers, IInv, TypeOK
      <3>3. Honest(status)' /\ Honest(o)'
        BY <2>1, <3>1, WritesHonest, OutcomeHonest DEF ReadyInv
      <3> QED
        BY <3>2, <3>3 DEF ReadyInv
    <2>3. CASE Looks
      <3>1. rec'.pc = "job" /\ UNCHANGED analyzer
        BY <2>3 DEF Looks, IInv, TypeOK
      <3> QED
        BY <2>1, <3>1, QuietKeepsReady DEF SameRecord
    <2> QED
      BY <1>1, <2>2, <2>3, PassOutcome
  <1>2. CASE Refuse \/ LoseReply
    <2>1. PICK o \in Statuses : Answers(o) /\ Stays(o)
      BY <1>2, StopOutcome
    <2>2. UNCHANGED <<status, analyzer>> /\ rec.pc \in {"act", "job", "commit"}
      BY <1>2 DEF Refuse, LoseReply, clusterVars, analyzerVars
    <2>3. SameRecord(o, status) /\ ~o.ready
      BY <2>1, <2>2 DEF Stays, TInv, Mirror, SameRecord
    <2>4. rec'.out = o
      BY <2>1 DEF Answers, IInv, TypeOK
    <2> QED
      BY <2>2, <2>3, <2>4
      DEF ReadyInv, SameRecord, Honest, ReadyFits, Deployed, Marked, Is
  <1> QED
    BY <1>1, <1>2

LEMMA CommitKeepsReady == ASSUME IInv, TInv, ReadyInv, Commit PROVE ReadyInv'
  <1>1. rec'.pc = "idle" /\ rec.pc = "commit" /\ UNCHANGED analyzer
    BY CommitRecord DEF Commit, Idle, clusterVars, analyzerVars
  <1>2. CASE rec.fresh
    BY <1>1, <1>2, CommitRecord
    DEF ReadyInv, SameRecord, Honest, ReadyFits, Deployed, Marked, Is
  <1>3. CASE ~rec.fresh
    BY <1>1, <1>3, CommitRecord, QuietKeepsReady DEF SameRecord
  <1> QED
    BY <1>2, <1>3

LEMMA NextKeepsReady == IInv /\ TInv /\ ReadyInv /\ [Next]_vars => ReadyInv'
  <1> SUFFICES ASSUME IInv, TInv, ReadyInv, [Next]_vars PROVE ReadyInv'
    OBVIOUS
  <1>1. CASE Reconcile \/ Refuse \/ LoseReply
    BY <1>1, PassKeepsReady
  <1>2. CASE Commit
    BY <1>2, CommitKeepsReady
  <1>3. CASE RetryElapses
    BY <1>3, RetryRecord, QuietKeepsReady DEF clusterVars, analyzerVars
  <1>4. CASE DeploymentObserved \/ PodAvailable \/ PodFails
    <2>1. analyzer \in Deployments \cup {NoDeployment}
      BY DEF IInv, TypeOK
    <2>2. /\ analyzer'.release = analyzer.release /\ analyzer'.hash = analyzer.hash
          /\ analyzer'.replicas = analyzer.replicas
      <3>1. CASE DeploymentObserved
        BY <2>1, <3>1 DEF DeploymentObserved, Deployments, NoDeployment
      <3>2. CASE PodAvailable
        BY <2>1, <3>2 DEF PodAvailable, Deployments, NoDeployment
      <3>3. CASE PodFails
        BY <2>1, <3>3 DEF PodFails, Deployments, NoDeployment
      <3> QED
        BY <1>4, <3>1, <3>2, <3>3
    <2>3. UNCHANGED <<status, rec>>
      BY <1>4 DEF DeploymentObserved, PodAvailable, PodFails
    <2> QED
      BY <2>2, <2>3, QuietKeepsReady DEF SameRecord
  <1>5. CASE ~(\/ Reconcile \/ Refuse \/ LoseReply \/ Commit \/ RetryElapses
               \/ DeploymentObserved \/ PodAvailable \/ PodFails)
    <2>1. UNCHANGED <<status, analyzer>>
      BY <1>5
      DEF Next, Process, Faults, Operator, Workloads, List, Restart, ReplacePod, Crash,
          JobDeleted, EditSpec, EditReferences, EditConfirmation, MigrateSchema,
          JobCompletes, JobFails, MigratorExits, PodExits, PodStarts, vars, clusterVars,
          analyzerVars
    <2>2. rec'.pc = "commit" => rec.pc = "commit" /\ rec'.out = rec.out
      BY <1>5
      DEF Next, Process, Faults, Operator, Workloads, List, Restart, ReplacePod, Crash,
          JobDeleted, EditSpec, EditReferences, EditConfirmation, MigrateSchema,
          JobCompletes, JobFails, MigratorExits, PodExits, PodStarts, vars, Idle, IInv,
          TypeOK
    <2> QED
      BY <2>1, <2>2, QuietKeepsReady DEF SameRecord
  <1> QED
    BY <1>1, <1>2, <1>3, <1>4, <1>5

LEMMA InitReady == Init => ReadyInv
  <1> SUFFICES ASSUME Init PROVE ReadyInv
    OBVIOUS
  <1>1. PICK start \in Starts : StartsFrom(start.installed, start.interrupted)
    BY DEF Init
  <1> DEFINE at == start.installed
             to == start.interrupted
  <1>2. /\ at \in Releases \cup {None} /\ to \in Releases \cup {None}
        /\ to # None => at \notin {None, to}
    BY WorldAssumption
  <1>3. StartsFrom(at, to)
    BY <1>1
  <1> HIDE DEF at, to
  <1>4. rec.pc = "idle"
    BY DEF Init, Idle
  <1>5. CASE at = None
    BY <1>2, <1>3, <1>4, <1>5
    DEF StartsFrom, EmptyStatus, ReadyInv, Honest, ReadyFits, Deployed, Marked
  <1>6. CASE at # None /\ to = None
    <2>1. status = InstalledStatus(at, FirstHash)
      BY <1>3, <1>6 DEF StartsFrom
    <2>2. /\ status.current = at /\ status.target = None /\ status.phase = "complete"
          /\ status.configurationHash = FirstHash
      BY <2>1, ZenonT(60) DEF InstalledStatus, EmptyStatus
    <2>3. Is(at, FirstHash)
      BY <1>3, <1>6 DEF StartsFrom, Is
    <2> QED
      BY <1>4, <2>2, <2>3 DEF ReadyInv, Honest, ReadyFits, Deployed, Marked
  <1>7. CASE at # None /\ to # None
    <2>1. status = InterruptedStatus(at, to, FirstHash)
      BY <1>3, <1>7 DEF StartsFrom
    <2>2. status.phase = "migration" /\ status.mayHaveRun = "unknown" /\ ~status.ready
      BY <2>1, ZenonT(60) DEF InterruptedStatus, InstalledStatus, EmptyStatus
    <2> QED
      BY <1>4, <2>2 DEF ReadyInv, Honest, ReadyFits, Deployed, Marked
  <1> QED
    BY <1>5, <1>6, <1>7

\* Ready=True stands only beside the Deployment it speaks of (conditions, and
\* the writes of maintain and Advance): the release reported, its
\* configuration, one replica, and no migration.
THEOREM ReadyIsHonest == Spec => []ReadyHonest
  <1>1. IInv /\ ReadyInv => ReadyHonest
    <2> SUFFICES ASSUME IInv, ReadyInv, status.ready PROVE ReadyHonest
      BY DEF ReadyHonest
    <2>1. status.phase = "complete"
      BY DEF ReadyInv, Honest, ReadyFits
    <2>2. migrators = {}
      BY <2>1 DEF IInv, Migrating, Recorded, Active
    <2> QED
      BY <2>1, <2>2 DEF ReadyInv, Honest, ReadyFits, Is, ReadyHonest
  <1> QED
    BY <1>1, InitReady, NextKeepsReady, RulesHold, PTL DEF Spec
=============================================================================
