----------------------------- MODULE Supervisor -----------------------------
(***************************************************************************)
(* The release supervisor of one watched namespace: the reconcile loop of  *)
(* internal/supervisor/controller.go and runtime.go, with the Kubernetes   *)
(* objects it drives.  One pass of the loop is three steps, four when it    *)
(* comes to a Job, because the world moves between them:                   *)
(*                                                                         *)
(*   List     reads the PIGDeployment: spec, status and resourceVersion    *)
(*   Act      one of the actions of Reconcile: reads the catalog, Jobs,    *)
(*            Pods and Deployments, applies at most one phase's writes and *)
(*            computes the new status; before a Job it only looks for it,  *)
(*            checks the confirmation if there is none, and leaves the     *)
(*            rest to a step of its own (RunJob), which reads again        *)
(*   Commit   patches the status, guarded by the listed resourceVersion    *)
(*                                                                         *)
(* A crash, a failed call or an operator's edit may fall between any two.  *)
(* The resourceVersion is kept as one bit, rec.fresh: whether the object   *)
(* is unchanged since it was listed.                                       *)
(*                                                                         *)
(* Abstracted: the contents of releases to the fields the code compares;   *)
(* a configuration hash to the pair <<settings, revision>> it is computed  *)
(* from; timestamps to whether they have passed, where a pass compares     *)
(* with the time it began at (rec.lapsed); the population, name,           *)
(* Flux and Secret checks at the head of reconcile to a refusal that may   *)
(* come at any pass (Refuse).  Acceptance Jobs, the conditions' texts, the *)
(* Updating condition and observedGeneration play no part in a transition  *)
(* and are left out, as is the content of the CRD that selfUpdate merges.  *)
(*                                                                         *)
(* An operator whose name extends the one after it (MayCancelAlways before *)
(* MayCancel) is that operator with a bug: a mutant, not part of the model. *)
(***************************************************************************)
EXTENDS Naturals, FiniteSets

CONSTANTS
    Releases,     \* digests of published release manifests
    None,         \* the absent value of a status field
    Version,      \* [Releases -> Nat \ {0}], ordered as semantic versions are
    SchemaFrom,   \* [Releases -> SUBSET Nat], revisions a release migrates from
    SchemaTo,     \* [Releases -> Nat], the revision it migrates to and serves
    RollbackTo,   \* [Releases -> SUBSET Releases], its declared rollbacks
    Guarded,      \* releases that need an operator's confirmation ConfigMap
    Unsupported,  \* releases whose requirements this cluster does not meet
    NonAdditive,  \* releases whose CRD cannot be merged into the installed one
    Settings,     \* contents of the spec outside spec.release
    Starts,       \* what a namespace may start from: the release installed in it
                  \* and the target of a transition an older supervisor left
    Catalogs,     \* the catalogs the publisher may serve, the first one included
    FirstCatalog,
    Specs,        \* the specs the operator may write
    FirstSpec,
    MaxEdits,     \* bound: edits by the operator and the publisher, expiries
    MaxRevision,  \* bound: rotations of Secrets among them
    MaxFaults,    \* bound: crashes, failed calls, failed or deleted Jobs
    MaxEvents,    \* bound: edits and faults together
    MaxAttempt    \* bound: attempts of one Job of one transition

Phases == {"preflight", "quiesce", "migration", "rollout", "verify",
           "supervisor", "complete"}
JobPhases == {"preflight", "migration", "verify"}
Hashes == Settings \X Nat
Spec0 == [paused : BOOLEAN, pin : Nat, settings : Settings]  \* pin = 0: no pin

ASSUME ReleaseAssumption ==
    /\ None \notin Releases
    /\ Version \in [Releases -> Nat \ {0}]
    /\ SchemaFrom \in [Releases -> SUBSET Nat]
    /\ SchemaTo \in [Releases -> Nat]
    /\ RollbackTo \in [Releases -> SUBSET Releases]
    /\ Guarded \subseteq Releases /\ Unsupported \subseteq Releases
    /\ NonAdditive \subseteq Releases

\* The rollback check both callers share: declared, and on the same schema.
RollbackAllowed(from, to) == to \in RollbackTo[from] /\ SchemaTo[to] = SchemaTo[from]
MayFollow(from, to) == Version[to] >= Version[from] \/ RollbackAllowed(from, to)

\* What an older supervisor left unfinished had passed the same checks.
ASSUME WorldAssumption ==
    /\ Starts \subseteq [installed : Releases \cup {None}, interrupted : Releases \cup {None}]
    /\ \A s \in Starts : s.interrupted # None =>
          /\ s.installed \notin {None, s.interrupted}
          /\ MayFollow(s.installed, s.interrupted)
    /\ FirstCatalog \in Catalogs /\ FirstSpec \in Specs
    /\ Specs \subseteq Spec0 /\ None \notin Hashes
    /\ \A c \in Catalogs : c \subseteq Releases
    /\ MaxEdits \in Nat /\ MaxRevision \in Nat /\ MaxFaults \in Nat
    /\ MaxEvents \in Nat /\ MaxAttempt \in Nat

\* Schema revisions never fall: every manifest of catalog/releases migrates from
\* lower revisions, or its own, although nothing in the code asks for it.
ASSUME SchemaAssumption ==
    /\ \A r \in Releases : \A v \in SchemaFrom[r] : v <= SchemaTo[r]
    /\ \A s \in Starts : s.interrupted # None =>
          SchemaTo[s.installed] <= SchemaTo[s.interrupted]

VARIABLES
    \* what the operator and the publisher control
    spec,          \* spec of the PIGDeployment: paused, pin, settings
    revision,      \* resourceVersions of the referenced Secrets, as one number
    catalog,       \* the releases the catalog URL serves
    confirmed,     \* the release the confirmation ConfigMap is valid for, or None
    \* what the supervisor persists and holds in memory
    status,        \* status of the PIGDeployment
    rec,           \* the pass in progress: pc, listed spec and status, fresh, out,
                   \* and lapsed: whose confirmation expired since it began
    \* the cluster
    jobRunning, jobComplete, jobFailed,  \* names of the existing Jobs, by outcome
    migrators,     \* names of migration Jobs whose Pod has not terminated
    db,            \* schema revision of the database
    analyzer,      \* the analyzer Deployment
    serving,       \* analyzer Pods that have not terminated
    image,         \* image in the supervisor's Deployment
    running,       \* image the supervisor's Pod runs
    \* bounds and history
    edits, faults,
    checked,       \* phases whose Job completed since the transition (re)started
    old,           \* names of Jobs that existed when it did
    vouched        \* migration Jobs whose confirmation was found valid when a
                   \* pass last looked for them and found none

policyVars == <<spec, revision, catalog, confirmed>>
jobVars == <<jobRunning, jobComplete, jobFailed, migrators>>
analyzerVars == <<analyzer, serving>>
supervisorVars == <<image, running>>
historyVars == <<checked, old, vouched>>
boundVars == <<edits, faults>>
clusterVars == <<jobVars, db, analyzerVars, supervisorVars>>
vars == <<policyVars, status, rec, clusterVars, historyVars, boundVars>>

Statuses ==
    [current : Releases \cup {None}, target : Releases \cup {None},
     phase : Phases \cup {"none"}, attempt : Nat,
     configurationHash : Hashes \cup {None},
     transitionHash : Hashes \cup {None}, transitionID : Nat,
     mayHaveRun : {"unknown", "no", "yes"},    \* migrationMayHaveRun, absent if unknown
     migrationDigest : Releases \cup {None},
     retryAt : {"none", "waiting", "due"},     \* unset, in the future, in the past
     blocked : BOOLEAN, ready : BOOLEAN]
JobNames ==
    [release : Releases, hash : Hashes \cup {None}, phase : JobPhases,
     attempt : Nat, transitionID : Nat]
Deployments ==
    [release : Releases, hash : Hashes, replicas : {0, 1},
     observed : BOOLEAN,    \* status.observedGeneration is the generation
     available : BOOLEAN,   \* one updated, available replica
     expired : BOOLEAN]     \* ProgressDeadlineExceeded
NoDeployment == [release |-> None, hash |-> None, replicas |-> 0,
                 observed |-> TRUE, available |-> FALSE, expired |-> FALSE]
Pods == [release : Releases, hash : Hashes]
Jobs == jobRunning \cup jobComplete \cup jobFailed

-----------------------------------------------------------------------------
(* The status of a namespace that has installed nothing, of one where r is *)
(* installed, and of one where an older supervisor, which recorded neither *)
(* transition IDs nor the migration boundary, left an update to t at its   *)
(* migration.                                                              *)
EmptyStatus ==
    [current |-> None, target |-> None, phase |-> "none", attempt |-> 0,
     configurationHash |-> None, transitionHash |-> None, transitionID |-> 0,
     mayHaveRun |-> "unknown", migrationDigest |-> None, retryAt |-> "none",
     blocked |-> FALSE, ready |-> FALSE]
InstalledStatus(r, hash) ==
    [EmptyStatus EXCEPT !.current = r, !.phase = "complete", !.ready = TRUE,
        !.configurationHash = hash, !.transitionHash = hash, !.mayHaveRun = "no"]
InterruptedStatus(r, t, hash) ==
    [InstalledStatus(r, hash) EXCEPT !.target = t, !.phase = "migration",
        !.mayHaveRun = "unknown", !.ready = FALSE]
Idle == [pc |-> "idle", spec |-> FirstSpec, status |-> EmptyStatus,
         fresh |-> FALSE, out |-> EmptyStatus, lapsed |-> None]
FirstHash == <<FirstSpec.settings, 0>>

StartsFrom(installed, interrupted) ==
    /\ status = IF installed = None THEN EmptyStatus
                ELSE IF interrupted = None THEN InstalledStatus(installed, FirstHash)
                ELSE InterruptedStatus(installed, interrupted, FirstHash)
    /\ db \in IF installed = None THEN {0}
              ELSE {SchemaTo[installed]} \cup
                   (IF interrupted = None THEN {} ELSE {SchemaTo[interrupted]})
    /\ analyzer = IF installed = None THEN NoDeployment
                  ELSE IF interrupted = None
                  THEN [release |-> installed, hash |-> FirstHash, replicas |-> 1,
                        observed |-> TRUE, available |-> TRUE, expired |-> FALSE]
                  ELSE [release |-> interrupted, hash |-> FirstHash, replicas |-> 0,
                        observed |-> TRUE, available |-> FALSE, expired |-> FALSE]
    /\ serving = IF installed = None \/ interrupted # None THEN {}
                 ELSE {[release |-> installed, hash |-> FirstHash]}
    /\ image = installed /\ running = installed
    /\ checked = IF interrupted = None THEN {} ELSE {"preflight"}

Init ==
    /\ spec = FirstSpec /\ revision = 0 /\ catalog = FirstCatalog
    /\ confirmed \in Guarded \cup {None}
    /\ \E start \in Starts : StartsFrom(start.installed, start.interrupted)
    /\ rec = Idle
    /\ jobRunning = {} /\ jobComplete = {} /\ jobFailed = {} /\ migrators = {}
    /\ edits = 0 /\ faults = 0 /\ old = {} /\ vouched = {}

MayEdit == edits < MaxEdits /\ edits + faults < MaxEvents
MayFault == faults < MaxFaults /\ edits + faults < MaxEvents

-----------------------------------------------------------------------------
(* What a pass knows: the listed spec and status, and what it reads.       *)
hash == <<rec.spec.settings, revision>>
Paused == rec.spec.paused
PauseRequested == Paused /\ rec.status.target \notin {None, rec.status.current}
MayCancelAlways == rec.status.current # None
MayCancelUnlessRecorded == rec.status.current # None /\ rec.status.mayHaveRun # "yes"
MayCancelWhenUnknown == rec.status.current # None /\ rec.status.mayHaveRun = "unknown"
MayCancel == rec.status.current # None /\ rec.status.mayHaveRun = "no"

\* The working status: a pause before the migration boundary drops the target.
work == IF PauseRequested
        THEN [rec.status EXCEPT !.target = None, !.phase = "complete", !.retryAt = "none"]
        ELSE rec.status

\* Catalog.Select: the pinned version, or the highest; {} when none matches or
\* the catalog lists any version twice.
Select(pin) ==
    LET duplicate == \E p, q \in catalog : p # q /\ Version[p] = Version[q]
        matching == {r \in catalog : pin \in {0, Version[r]}}
    IN  IF duplicate THEN {}
        ELSE {r \in matching : \A q \in matching : Version[q] <= Version[r]}

\* The release this pass works for, {} when the catalog has no answer or no
\* pass is being made.
Candidates ==
    IF rec.pc # "act" THEN {}
    ELSE IF work.target = work.current /\ work.current # None THEN {work.current}
    ELSE IF work.target # None THEN Select(Version[work.target])
    ELSE IF Paused THEN {work.current} \ {None}
    ELSE Select(rec.spec.pin)

Selected(sel) ==
    /\ PauseRequested => MayCancel
    /\ sel \in Candidates
    /\ work.target \in {None, sel}

\* A newer policy, or a newer release after a block, replaces the target.
Replacing(sel, req) ==
    /\ work.target # None /\ ~Paused
    /\ req \in Select(rec.spec.pin) /\ req # sel
    /\ \/ rec.spec.pin # 0
       \/ rec.status.blocked /\ Version[req] > Version[sel]

\* The pass continues a transition: there is a target and nothing replaces it.
Continues(sel) ==
    /\ Selected(sel)
    /\ work.target # None
    /\ ~Paused => /\ Select(rec.spec.pin) # {}
                  /\ \A req \in Select(rec.spec.pin) : ~Replacing(sel, req)
Advances(sel) == Continues(sel) /\ rec.status.transitionHash = hash

JobName(s, sel) ==
    [release |-> sel, hash |-> s.transitionHash, phase |-> s.phase,
     attempt |-> s.attempt, transitionID |-> s.transitionID]

\* RecoveryCheck and CapacityCheck on the confirmation ConfigMap: its age is
\* reckoned at the time the pass began.
Confirmed(sel) == sel \in Guarded => sel \in {confirmed, rec.lapsed}

-----------------------------------------------------------------------------
(* Outcomes of a pass.  A Blocked error still persists the status as far   *)
(* as the pass had changed it; any other error persists the listed status  *)
(* with only the conditions changed.                                       *)
Reply(s) == rec' = [rec EXCEPT !.pc = "commit", !.out = s]
Block(s) == Reply([s EXCEPT !.blocked = TRUE, !.ready = FALSE])
Fail == Block(rec.status)
Proceed(s) == Reply([s EXCEPT !.blocked = FALSE, !.ready = (s.phase = "complete")])

PhaseAfterShortList(s, sel) ==
    CASE s.phase = "quiesce" -> IF sel = s.current THEN "rollout" ELSE "migration"
      [] s.phase = "preflight" -> "quiesce" [] s.phase = "migration" -> "rollout"
      [] s.phase = "rollout" -> "verify"    [] s.phase = "verify" -> "supervisor"
      [] OTHER -> ""
PhaseAfter(s, sel) ==
    CASE s.phase = "quiesce" -> IF sel = s.current THEN "rollout" ELSE "migration"
      [] s.phase = "preflight" -> "quiesce" [] s.phase = "migration" -> "rollout"
      [] s.phase = "rollout" -> "verify"    [] s.phase = "verify" -> "supervisor"
      [] OTHER -> "complete"

NextPhaseUnrecorded(s, sel) ==
    [s EXCEPT !.phase = PhaseAfter(s, sel), !.attempt = 0]
NextPhase(s, sel) ==
    LET next == PhaseAfter(s, sel)
    IN  [s EXCEPT !.phase = next, !.attempt = 0,
            !.migrationDigest = IF next = "migration" /\ s.mayHaveRun = "no" THEN sel ELSE @,
            !.mayHaveRun = IF next = "migration" THEN "yes" ELSE @]

\* The checks a transition to sel starts with.
MayStartAnyVersion(s, sel) ==
    /\ sel \notin Unsupported
    /\ sel # s.current => Confirmed(sel)
MayStart(s, sel) ==
    /\ sel \notin Unsupported
    /\ sel # s.current => Confirmed(sel)
    /\ (s.current # None /\ Version[sel] < Version[s.current]) => RollbackAllowed(s.current, sel)

\* Phase, attempt, hash and transition ID of fresh checks.  The ID is new: an
\* ID that was drawn and never committed named no Job.
RestartedSameID(s) ==
    [s EXCEPT !.phase = "preflight", !.attempt = 0, !.transitionHash = hash,
        !.retryAt = "none", !.blocked = FALSE, !.ready = FALSE]
RestartedStillReady(s) ==
    [s EXCEPT !.phase = "preflight", !.attempt = 0, !.transitionHash = hash,
        !.transitionID = @ + 1, !.retryAt = "none", !.blocked = FALSE]
Restarted(s) ==
    [s EXCEPT !.phase = "preflight", !.attempt = 0, !.transitionHash = hash,
        !.transitionID = @ + 1, !.retryAt = "none", !.blocked = FALSE, !.ready = FALSE]

Begin(s, sel) ==
    IF MayStart(s, sel)
    THEN Reply([Restarted(s) EXCEPT !.target = sel,
                    !.mayHaveRun = IF @ = "unknown" THEN "no" ELSE @])
    ELSE Block(s)

-----------------------------------------------------------------------------
(* Passes that end before a release is worked for.                         *)
List ==
    /\ rec.pc = "idle"
    /\ rec' = [pc |-> "act", spec |-> spec, status |-> status, fresh |-> TRUE,
               out |-> status, lapsed |-> None]
    /\ UNCHANGED <<policyVars, status, clusterVars, historyVars, boundVars>>

HoldPause ==
    /\ rec.pc = "act"
    /\ \/ PauseRequested /\ ~MayCancel
       \/ Paused /\ rec.status.target = None /\ rec.status.current = None
    /\ Block(rec.status)
    /\ UNCHANGED <<policyVars, status, clusterVars, historyVars, boundVars>>

CatalogFails ==
    /\ rec.pc = "act"
    /\ PauseRequested => MayCancel
    /\ \/ Candidates = {} /\ ~(Paused /\ work.target = None)
       \/ work.target # None /\ ~Paused /\ Select(rec.spec.pin) = {}
    /\ Fail
    /\ UNCHANGED <<policyVars, status, clusterVars, historyVars, boundVars>>

DigestChanged ==
    /\ rec.pc = "act"
    /\ PauseRequested => MayCancel
    /\ work.target # None /\ Candidates # {} /\ work.target \notin Candidates
    /\ Block(work)
    /\ UNCHANGED <<policyVars, status, clusterVars, historyVars, boundVars>>

\* A failed precondition, or a call that failed without effect.
Refuse ==
    /\ rec.pc \in {"act", "job"} /\ MayFault
    /\ Fail
    /\ faults' = faults + 1
    /\ UNCHANGED <<policyVars, status, clusterVars, historyVars, edits>>

\* A write that took effect although its answer was lost.
LoseReply ==
    /\ rec.pc = "commit" /\ MayFault
    /\ Fail
    /\ faults' = faults + 1
    /\ UNCHANGED <<policyVars, status, clusterVars, historyVars, edits>>

-----------------------------------------------------------------------------
(* Choosing a transition.                                                  *)

\* The target's migration Job has neither finished nor lost its last Pod.
MigrationActiveJobOnly(n) == n \in jobRunning
MigrationActive(n) == n \in jobRunning \cup migrators

\* The in-progress release may be replaced: nothing is migrating, and a
\* release that may have migrated allows a downgrade.
MayReplaceAnyVersion(sel, req) ==
    rec.status.phase = "migration" => ~MigrationActive(JobName(rec.status, sel))
MayReplace(sel, req) ==
    LET s == rec.status IN
    /\ s.phase = "migration" => ~MigrationActive(JobName(s, sel))
    /\ (s.mayHaveRun # "no" /\ Version[req] < Version[sel])
         => s.migrationDigest = sel /\ RollbackAllowed(sel, req)

Detached(s) ==
    [s EXCEPT !.target = None, !.phase = "preflight",
        !.mayHaveRun = IF @ = "unknown" THEN "yes" ELSE @]

ReplaceTarget ==
    /\ \E sel \in Candidates : \E req \in Select(rec.spec.pin) :
          /\ Selected(sel) /\ Replacing(sel, req)
          /\ IF MayReplace(sel, req) THEN Begin(Detached(rec.status), req)
                                     ELSE Block(rec.status)
    /\ UNCHANGED <<policyVars, status, clusterVars, historyVars, boundVars>>

Settled(s, sel) ==
    sel = s.current /\ s.phase = "complete" /\ s.configurationHash = hash

BeginTransition ==
    /\ \E sel \in Candidates :
          /\ Selected(sel) /\ work.target = None /\ ~Settled(work, sel)
          /\ Begin(work, sel)
    /\ UNCHANGED <<policyVars, status, clusterVars, historyVars, boundVars>>

\* The configuration changed under a transition: run its checks again, after
\* the migration Job that runs with the old one.
Rebase ==
    /\ \E sel \in Candidates :
          /\ Continues(sel) /\ rec.status.transitionHash # hash
          /\ IF rec.status.phase = "migration" /\ MigrationActive(JobName(rec.status, sel))
             THEN Block(rec.status)
             ELSE Reply(Restarted(rec.status))
    /\ UNCHANGED <<policyVars, status, clusterVars, historyVars, boundVars>>

-----------------------------------------------------------------------------
(* The Deployment of the analyzer.  An Apply that changes it starts a new  *)
(* generation, which the Deployment controller has not observed.           *)
Applied(r, h, n) ==
    IF <<analyzer.release, analyzer.hash, analyzer.replicas>> = <<r, h, n>>
    THEN analyzer
    ELSE [release |-> r, hash |-> h, replicas |-> n,
          observed |-> FALSE, available |-> FALSE, expired |-> FALSE]
DeploymentReady(d) == d.observed /\ d.available /\ ~d.expired
DeploymentExpired(d) == d.observed /\ d.expired

\* No transition and nothing to change: keep the analyzer as it should be.
Maintain ==
    /\ \E sel \in Candidates :
          /\ Selected(sel) /\ work.target = None /\ Settled(work, sel)
          /\ analyzer' = Applied(sel, hash, 1)
          /\ IF DeploymentReady(analyzer') THEN Proceed(work) ELSE Block(work)
    /\ UNCHANGED <<policyVars, status, jobVars, db, serving, supervisorVars,
                   historyVars, boundVars>>

(* The phases of a transition.  Preflight, migration and verify each run a *)
(* Job.  Advance looks for a migration Job and checks the confirmation once *)
(* more if there is none; job then gets the Job again, lists the migration's *)
(* Pods, which may outlive the Job's outcome and the Job, and creates it.   *)
Name == JobName(rec.status, rec.status.target)
Absent == rec.status.phase = "migration" /\ Name \notin Jobs
MustConfirmNever == FALSE
MustConfirm == Absent /\ ~Confirmed(rec.status.target)

LookForJob ==
    /\ rec.status.phase \in JobPhases /\ \E sel \in Candidates : Advances(sel)
    /\ IF MustConfirm THEN Block(rec.status) ELSE rec' = [rec EXCEPT !.pc = "job"]
    /\ vouched' = IF ~Absent \/ rec.status.target \notin Guarded THEN vouched
                  ELSE IF Confirmed(rec.status.target) THEN vouched \cup {Name}
                  ELSE vouched \ {Name}
    /\ UNCHANGED <<policyVars, status, clusterVars, checked, old, boundVars>>

PodRunningNever == FALSE
PodRunning == rec.status.phase = "migration" /\ Name \in migrators

StartJob ==
    /\ ~PodRunning /\ Name \notin Jobs
    /\ jobRunning' = jobRunning \cup {Name}
    /\ migrators' = migrators \cup (IF rec.status.phase = "migration" THEN {Name} ELSE {})
    /\ Proceed(rec.status)

AwaitJob ==
    /\ PodRunning \/ Name \in jobRunning
    /\ Proceed(rec.status)
    /\ UNCHANGED <<jobRunning, migrators>>

PassJob ==
    /\ ~PodRunning /\ Name \in jobComplete
    /\ Proceed(NextPhase(rec.status, rec.status.target))
    /\ UNCHANGED <<jobRunning, migrators>>

\* A failed Job is tried again under the next attempt's name, two minutes
\* after its failure was first seen.
RetriedSameAttempt(s) ==
    CASE s.retryAt = "none" -> [s EXCEPT !.retryAt = "waiting"]
      [] s.retryAt = "due" -> [s EXCEPT !.retryAt = "none"]
      [] OTHER -> s
Retried(s) ==
    CASE s.retryAt = "none" -> [s EXCEPT !.retryAt = "waiting"]
      [] s.retryAt = "due" /\ s.attempt < MaxAttempt ->
             [s EXCEPT !.attempt = @ + 1, !.retryAt = "none"]
      [] OTHER -> s

RetryJob ==
    /\ ~PodRunning /\ Name \in jobFailed
    /\ Block(Retried(rec.status))
    /\ UNCHANGED <<jobRunning, migrators>>

RunJob ==
    /\ rec.pc = "job"
    /\ StartJob \/ AwaitJob \/ PassJob \/ RetryJob
    /\ UNCHANGED <<policyVars, status, jobComplete, jobFailed, db, analyzerVars,
                   supervisorVars, historyVars, boundVars>>

Quiesce(sel) ==
    /\ rec.status.phase = "quiesce" /\ Advances(sel)
    /\ analyzer' = IF analyzer = NoDeployment THEN analyzer ELSE Applied(sel, hash, 0)
    /\ Proceed(IF analyzer'.observed /\ serving = {}
               THEN NextPhase(rec.status, sel) ELSE rec.status)
    /\ UNCHANGED <<jobVars, image>>

Rollout(sel) ==
    /\ rec.status.phase = "rollout" /\ Advances(sel)
    /\ analyzer' = Applied(sel, hash, 1)
    /\ IF DeploymentExpired(analyzer') THEN Block(rec.status)
       ELSE Proceed(IF DeploymentReady(analyzer')
                    THEN NextPhase(rec.status, sel) ELSE rec.status)
    /\ UNCHANGED <<jobVars, image>>

\* selfUpdate, then wait for the supervisor's own Deployment.
UpdateSupervisor(sel) ==
    /\ rec.status.phase = "supervisor" /\ Advances(sel)
    /\ IF sel # rec.status.current /\ sel \in NonAdditive
       THEN Block(rec.status) /\ UNCHANGED image
       ELSE /\ image' = IF sel # rec.status.current THEN sel ELSE image
            /\ Proceed(IF image' = sel /\ running = sel
                       THEN NextPhase(rec.status, sel) ELSE rec.status)
    /\ UNCHANGED <<jobVars, analyzer>>

Complete(sel) ==
    /\ rec.status.phase = "complete" /\ Advances(sel)
    /\ Proceed([rec.status EXCEPT !.current = sel, !.configurationHash = hash,
                    !.target = None, !.attempt = 0, !.mayHaveRun = "no",
                    !.migrationDigest = None])
    /\ UNCHANGED <<jobVars, analyzer, image>>

Advance ==
    /\ \E sel \in Candidates :
          Quiesce(sel) \/ Rollout(sel) \/ UpdateSupervisor(sel) \/ Complete(sel)
    /\ UNCHANGED <<policyVars, status, db, serving, running, historyVars, boundVars>>

Reconcile ==
    \/ HoldPause \/ CatalogFails \/ DigestChanged
    \/ ReplaceTarget \/ BeginTransition \/ Rebase \/ Maintain
    \/ LookForJob \/ RunJob \/ Advance

(* The status patch: skipped when nothing changed, refused when the object *)
(* changed since it was listed.  checked and old record what a restarted   *)
(* transition may not reuse.                                               *)
VersionMatchesAny == TRUE
VersionMatches == rec.fresh

Commit ==
    /\ rec.pc = "commit"
    /\ rec' = Idle
    /\ status' = IF VersionMatches
                 THEN [rec.out EXCEPT !.retryAt =
                         IF @ = rec.status.retryAt THEN status.retryAt ELSE @]
                 ELSE status
    /\ IF /\ status'.phase = "preflight"
          /\ \/ status.phase # "preflight"
             \/ status'.target # status.target
             \/ status'.transitionHash # status.transitionHash
       THEN checked' = {} /\ old' = Jobs /\ UNCHANGED vouched
       ELSE UNCHANGED historyVars
    /\ UNCHANGED <<policyVars, clusterVars, boundVars>>

Crash ==
    /\ rec.pc # "down" /\ MayFault
    /\ rec' = [Idle EXCEPT !.pc = "down"]
    /\ faults' = faults + 1
    /\ UNCHANGED <<policyVars, status, clusterVars, historyVars, edits>>

-----------------------------------------------------------------------------
(* The supervisor's own Pod: one replica, replaced with Recreate.          *)
Restart ==
    /\ rec.pc = "down"
    /\ rec' = Idle
    /\ running' = image
    /\ UNCHANGED <<policyVars, status, jobVars, db, analyzerVars, image, historyVars, boundVars>>

ReplacePod ==
    /\ image # running /\ rec.pc # "down"
    /\ rec' = [Idle EXCEPT !.pc = "down"]
    /\ UNCHANGED <<policyVars, status, clusterVars, historyVars, boundVars>>

RetryElapses ==
    /\ status.retryAt = "waiting"
    /\ status' = [status EXCEPT !.retryAt = "due"]
    /\ UNCHANGED <<policyVars, rec, clusterVars, historyVars, boundVars>>

(* The operator and the publisher.  Only an edit of the PIGDeployment      *)
(* changes its resourceVersion.                                            *)
EditSpec ==
    /\ MayEdit
    /\ spec' \in Specs \ {spec}
    /\ rec' = [rec EXCEPT !.fresh = FALSE]
    /\ edits' = edits + 1
    /\ UNCHANGED <<revision, catalog, confirmed, status, clusterVars, historyVars, faults>>

\* A Secret is rotated or a catalog published.
EditReferences ==
    /\ MayEdit
    /\ \/ revision < MaxRevision /\ revision' = revision + 1 /\ UNCHANGED catalog
       \/ catalog' \in Catalogs \ {catalog} /\ UNCHANGED revision
    /\ edits' = edits + 1
    /\ UNCHANGED <<spec, confirmed, status, rec, clusterVars, historyVars, faults>>

\* A confirmation is given, replaced or deleted, or its age passes the limit.
EditConfirmation ==
    /\ MayEdit
    /\ \/ /\ confirmed' \in (Guarded \cup {None}) \ {confirmed}
          /\ rec' = [rec EXCEPT !.lapsed = None]
       \/ /\ rec.pc \in {"act", "job"} /\ confirmed # None /\ confirmed' = None
          /\ rec' = [rec EXCEPT !.lapsed = confirmed]
    /\ edits' = edits + 1
    /\ UNCHANGED <<spec, revision, catalog, status, clusterVars, historyVars, faults>>

-----------------------------------------------------------------------------
(* Jobs and their Pods (external).  The analyzer image's preflight,        *)
(* supervised-migrate and verify commands check the schema; a migration    *)
(* commits in one transaction.                                             *)
SchemaAccepted(n) ==
    db \in IF n.phase = "preflight" THEN SchemaFrom[n.release] \cup {SchemaTo[n.release]}
           ELSE {SchemaTo[n.release]}
MayPass(n) == SchemaAccepted(n) \/ (n \in migrators /\ db \in SchemaFrom[n.release])

MigrateSchema ==
    /\ \E n \in migrators : /\ db \in SchemaFrom[n.release]
                            /\ db' = SchemaTo[n.release]
    /\ UNCHANGED <<policyVars, status, rec, jobVars, analyzerVars, supervisorVars,
                   historyVars, boundVars>>

JobCompletes ==
    /\ \E n \in jobRunning :
          /\ SchemaAccepted(n)
          /\ n.phase = "migration" => n \in migrators
          /\ jobRunning' = jobRunning \ {n}
          /\ jobComplete' = jobComplete \cup {n}
          /\ migrators' = migrators \ {n}
          /\ checked' = IF n \in old THEN checked ELSE checked \cup {n.phase}
    /\ UNCHANGED <<policyVars, status, rec, jobFailed, db, analyzerVars, supervisorVars,
                   old, vouched, boundVars>>

\* A Job fails by its own check, by an error or by its deadline; the Pod of a
\* Job that missed its deadline may still be terminating.
JobFails ==
    /\ \E n \in jobRunning :
          /\ jobRunning' = jobRunning \ {n}
          /\ jobFailed' = jobFailed \cup {n}
          /\ IF MayPass(n)
             THEN MayFault /\ faults' = faults + 1
             ELSE UNCHANGED faults
    /\ UNCHANGED <<policyVars, status, rec, jobComplete, migrators, db, analyzerVars,
                   supervisorVars, historyVars, edits>>

\* A Job is deleted by an operator, or, once finished, by its time to live.
JobDeleted ==
    /\ MayFault
    /\ \E n \in Jobs :
          /\ jobRunning' = jobRunning \ {n}
          /\ jobComplete' = jobComplete \ {n}
          /\ jobFailed' = jobFailed \ {n}
    /\ faults' = faults + 1
    /\ UNCHANGED <<policyVars, status, rec, migrators, db, analyzerVars, supervisorVars,
                   historyVars, edits>>

MigratorExits ==
    /\ \E n \in migrators \ jobRunning : migrators' = migrators \ {n}
    /\ UNCHANGED <<policyVars, status, rec, jobRunning, jobComplete, jobFailed, db,
                   analyzerVars, supervisorVars, historyVars, boundVars>>

(* The Deployment controller and the analyzer's Pods (external).           *)
Wanted == IF analyzer.replicas = 0 THEN {}
          ELSE {[release |-> analyzer.release, hash |-> analyzer.hash]}

DeploymentObserved ==
    /\ ~analyzer.observed
    /\ analyzer' = [analyzer EXCEPT !.observed = TRUE]
    /\ UNCHANGED <<policyVars, status, rec, jobVars, db, serving, supervisorVars,
                   historyVars, boundVars>>

\* Recreate: a Pod of the old template exits before one of the new starts.
PodExits ==
    /\ analyzer.observed /\ serving \ Wanted # {}
    /\ serving' = serving \cap Wanted
    /\ UNCHANGED <<policyVars, status, rec, jobVars, db, analyzer, supervisorVars,
                   historyVars, boundVars>>

PodStarts ==
    /\ analyzer.observed /\ serving = {} /\ Wanted # {}
    /\ serving' = Wanted
    /\ UNCHANGED <<policyVars, status, rec, jobVars, db, analyzer, supervisorVars,
                   historyVars, boundVars>>

PodAvailable ==
    /\ analyzer.observed /\ ~analyzer.available
    /\ serving # {} /\ serving = Wanted /\ db = SchemaTo[analyzer.release]
    /\ analyzer' = [analyzer EXCEPT !.available = TRUE, !.expired = FALSE]
    /\ UNCHANGED <<policyVars, status, rec, jobVars, db, serving, supervisorVars,
                   historyVars, boundVars>>

\* The Pod is lost, or does not become available before its deadline.
PodFails ==
    /\ analyzer.observed /\ analyzer.replicas = 1 /\ MayFault
    /\ \/ serving = Wanted /\ serving' = {} /\ analyzer' = [analyzer EXCEPT !.available = FALSE]
       \/ /\ ~analyzer.available /\ ~analyzer.expired
          /\ analyzer' = [analyzer EXCEPT !.expired = TRUE] /\ UNCHANGED serving
    /\ faults' = faults + 1
    /\ UNCHANGED <<policyVars, status, rec, jobVars, db, supervisorVars, historyVars, edits>>

-----------------------------------------------------------------------------
Process == List \/ Reconcile \/ Commit \/ Restart \/ ReplacePod \/ RetryElapses
Faults == Refuse \/ LoseReply \/ Crash \/ JobDeleted \/ PodFails
Operator == EditSpec \/ EditReferences \/ EditConfirmation
Workloads ==
    \/ MigrateSchema \/ JobCompletes \/ JobFails \/ MigratorExits
    \/ DeploymentObserved \/ PodExits \/ PodStarts \/ PodAvailable

Next == Process \/ Faults \/ Operator \/ Workloads
Spec == Init /\ [][Next]_vars

\* The manager polls every 15 seconds, Kubernetes restarts the Pod and runs
\* its controllers, Jobs have a deadline, and two minutes pass.
Fairness ==
    /\ WF_vars(List) /\ WF_vars(Reconcile) /\ WF_vars(Commit)
    /\ WF_vars(Restart) /\ WF_vars(ReplacePod) /\ WF_vars(RetryElapses)
    /\ WF_vars(MigrateSchema) /\ WF_vars(JobCompletes) /\ WF_vars(MigratorExits)
    /\ WF_vars(DeploymentObserved) /\ WF_vars(PodExits)
    /\ WF_vars(PodStarts) /\ WF_vars(PodAvailable)
FairSpec == Spec /\ Fairness

-----------------------------------------------------------------------------
(* Correctness.                                                            *)

\* Every variable keeps its type (the status fields of the CRD, the Job names
\* of workloads.go, the Deployment's fields the supervisor reads).
TypeOK ==
    /\ spec \in Spec0 /\ revision \in Nat /\ catalog \subseteq Releases
    /\ confirmed \in Releases \cup {None}
    /\ status \in Statuses
    /\ rec \in [pc : {"idle", "act", "job", "commit", "down"}, spec : Spec0,
                status : Statuses, fresh : BOOLEAN, out : Statuses,
                lapsed : Releases \cup {None}]
    /\ jobRunning \subseteq JobNames /\ jobComplete \subseteq JobNames
    /\ jobFailed \subseteq JobNames /\ migrators \subseteq JobNames
    /\ db \in Nat
    /\ analyzer \in Deployments \cup {NoDeployment} /\ serving \subseteq Pods
    /\ image \in Releases \cup {None} /\ running \in Releases \cup {None}
    /\ edits \in Nat /\ faults \in Nat
    /\ checked \subseteq JobPhases /\ old \subseteq JobNames /\ vouched \subseteq JobNames

\* The analyzer is quiesced before a migration and stays so until its Pod is
\* gone (phases quiesce to migration of Advance, and job's Pod check): while a
\* migration Pod runs there is no analyzer Pod and no second migration Pod.
MigrationExclusive ==
    migrators # {} => serving = {} /\ \A m, n \in migrators : m = n

\* The migration boundary is on record before it is crossed (Advance sets
\* migrationMayHaveRun on entering the phase): while a migration Job or its
\* Pod is active, the persisted status names its release as the target in the
\* phase migration, so no crash, pause or retry can take it for cancellable.
MigrationRecorded ==
    \A n \in migrators \cup {m \in jobRunning : m.phase = "migration"} :
        /\ status.mayHaveRun # "no" /\ status.phase = "migration"
        /\ status.target = n.release /\ status.attempt = n.attempt

\* No analyzer Pod ever runs against a schema other than its release's, in
\* whatever order upgrades, repairs, pauses and rotations come (CONTRACT.md,
\* "The worker requires the exact image schema").
SchemaServed == \A p \in serving : db = SchemaTo[p.release]

\* A transition passes a phase on checks of its own (transitionID in the Job
\* name): beyond preflight, migration or verify, that Job has completed since
\* the transition began or its configuration last changed.
FreshChecks ==
    status.target # None =>
        /\ status.phase \notin {"preflight", "none"} => "preflight" \in checked
        /\ (status.phase \in {"rollout", "verify", "supervisor", "complete"}
              /\ status.target # status.current) => "migration" \in checked
        /\ status.phase \in {"supervisor", "complete"} => "verify" \in checked

\* Ready=True is withdrawn before the analyzer is touched (conditions, and the
\* order of Reconcile's phases): while it stands, the Deployment is the one of
\* the release being reported, with its configuration and one replica.
ReadyHonest ==
    status.ready =>
        /\ status.phase = "complete" /\ migrators = {}
        /\ analyzer.replicas = 1
        /\ analyzer.release = IF status.target = None THEN status.current ELSE status.target
        /\ analyzer.hash = IF status.target = None THEN status.configurationHash
                           ELSE status.transitionHash

\* Each migration Job of a release that asks for a confirmation, that is each
\* attempt of each transition, had one (Advance's second RecoveryCheck and
\* CapacityCheck): it was valid when a pass last looked for the Job and found
\* none.  This is what the code keeps of CONTRACT.md's "immediately before
\* starting a new migration Job": a confirmation may end between that look and
\* the creation, and a Job that was deleted between the two is created again
\* on the confirmation its first creation had.
ConfirmedMigration ==
    \A n \in Jobs : (n.phase = "migration" /\ n.release \in Guarded) => n \in vouched

\* A pause that is in the object stops the release: no status written while it
\* stands names a new target other than the installed release, and beyond the
\* migration boundary the transition stays where it is (CONTRACT.md, "paused
\* halts release transitions at a safe checkpoint").
PauseHolds ==
    [][spec.paused =>
         /\ status'.target \in {status.target, status.current, None}
         /\ (status.target \notin {None, status.current} /\ status.mayHaveRun # "no")
               => status'.target = status.target /\ status'.phase = status.phase]_vars

\* The installed release is never replaced by an earlier one, unless its
\* manifest declares that one as a rollback on the same schema (checks of
\* reconcile before a transition), although the two may be many passes apart.
InstalledRollback ==
    [][(status.current # None /\ status'.current # status.current)
         => MayFollow(status.current, status'.current)]_vars

\* A target that may have migrated is never replaced directly by an earlier
\* release, unless it declares that one as a rollback itself.  The way round,
\* by a status without a target, is what RollbackControlled is about.
TargetRollback ==
    [][(/\ status.target # None /\ status'.target \notin {None, status.target}
        /\ status.mayHaveRun # "no")
         => \/ Version[status'.target] >= Version[status.target]
            \/ /\ status.migrationDigest = status.target
               /\ RollbackAllowed(status.target, status'.target)]_vars

\* The promise of Transition, kept by the passes, Jobs and Deployments: the
\* migration boundary is the stored migrationMayHaveRun, which an older
\* supervisor left out of an unfinished transition.
Crossed == \/ status.mayHaveRun = "yes"
           \/ status.mayHaveRun = "unknown" /\ status.target # None
Promise == INSTANCE Transition WITH
    installed <- status.current, pending <- status.target, crossed <- Crossed,
    schema <- db, serving <- {p.release : p \in serving}
ImplementsTransition == Promise!Spec

\* CONTRACT.md, "Rollback is available only when ... If an incomplete update
\* has reached migration, its target manifest controls this check": while the
\* release of such an update is on record, the target is that release, a later
\* one or a rollback it declares.  The code does not keep this.
RollbackControlled ==
    (status.mayHaveRun = "yes" /\ status.migrationDigest # None /\ status.target # None) =>
        LET from == status.migrationDigest IN
        \/ Version[status.target] >= Version[from]
        \/ RollbackAllowed(from, status.target)

Asked(r) ==
    /\ ~spec.paused /\ r \in Select(spec.pin)
    /\ r \notin Unsupported \cup NonAdditive
    /\ r \in Guarded => confirmed = r
Forward(r) ==
    \A q \in {status.current, status.target, image} \ {None} : q = r \/ Version[q] < Version[r]
Serves(r) ==
    /\ status.current = r /\ status.target = None /\ status.ready
    /\ analyzer.release = r /\ analyzer.available /\ image = r /\ running = r

\* Whatever crashes, failed Jobs, lost replies and policy edits came before,
\* once the policy asks for one release and goes on asking, and nothing that is
\* installed, begun or running as the supervisor is a later one, that release
\* ends up installed, reported ready and served by its analyzer and supervisor.
\* Going back is left out: it needs a declared rollback, and even a declared
\* one may never complete (RollbackAvailable).
Converges == \A r \in Releases : <>[](Asked(r) /\ Forward(r)) => <>[]Serves(r)

\* A pause before the migration boundary cancels the pending upgrade and keeps
\* the installed release available (CONTRACT.md, "Automatic updates").
PauseRestores ==
    (spec.paused /\ status.current # None /\ status.mayHaveRun = "no")
      ~> \/ ~spec.paused \/ status.mayHaveRun # "no"
         \/ status.target = None /\ status.ready /\ analyzer.available

\* CONTRACT.md, "Rollback is available only when the current manifest
\* explicitly lists the target release digest in rollbackTo and both releases
\* use the same schema revision": once an update that reached migration is
\* pinned to such a rollback, and the pin stays, the rollback is installed.
\* The code does not keep this.
RollbackAvailable ==
    \A from, to \in Releases :
        RollbackAllowed(from, to) =>
            ((status.migrationDigest = from /\ []Asked(to)) ~> Serves(to))

=============================================================================
