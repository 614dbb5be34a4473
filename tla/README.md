# Models of PIG release supervision and publication

TLA+ models, model-checking configurations and machine-checked proofs for this
repository. The repository publishes PIG releases and runs, in a customer's
cluster, a *supervisor* that installs and upgrades them: for one
`PIGDeployment` object it selects a release from a catalog, runs preflight,
stops the analyzer, migrates the database, starts the analyzer, verifies it,
updates itself, and records what is installed.

The supervisor is where the difficulty is. It acts through Kubernetes objects
that others change, it is restarted in the middle of its own update, and its
one irreversible step, the schema migration, runs in a Pod it does not control.

Paths below are relative to `supervisor/internal/supervisor/` unless they begin
with another directory.

## Inventory

| Component | State | Operations | Talks to | What is hard | What makes it correct |
|---|---|---|---|---|---|
| Reconcile loop: `controller.go`, `kube.go`, `runtime.go`, `workloads.go` | the status of the `PIGDeployment` (current, target, phase, attempt, transition hash and ID, migration boundary, conditions) | one pass every 15 s: list, decide, apply, patch the status | Jobs, Pods, Deployments, the confirmation ConfigMap, the catalog, the shared CRD | every read is stale by the time of the write; crashes between writes; Pods that outlive their Job; edits at any time; the update of itself | a migration is exclusive and on record; no analyzer on a foreign schema; no check reused; pauses, confirmations and rollback declarations kept; it converges |
| Leader election: `leadership.go`, `runtime.go` | Lease; elector's observed record; gate deadline; write under way | renew, take over, revoke, guarded write | the Lease; every write of the loop | delayed, lost and orphaned patches; a process that stalls after a check, or in a pass | one writer at a time, also across takeovers, and no pass acts on what a later leader has changed |
| Acceptance Jobs: `controller.go:704-752` | acceptance fields of the status | start, retry after 2 min, repeat after 1 h | Jobs | evidence of an older configuration reported for the current one | accepted release and configuration are those of a Job that completed |
| Object ownership: `kube.go` | owner references and resourceVersions | read, check the owner, apply without force, patch the status | the garbage collector, GitOps, other parties' objects | the object changes between the check and the apply; a `PIGDeployment` created again under its name | nothing of another party is adopted; no status of a predecessor; in the end the objects are its own |
| Shared CRD: `crd.go`, `selfUpdate` | the CRD's spec | merge, guarded patch | supervisors of other namespaces, an operator | two merges at once, a patch that arrives late, different releases' schemas | nothing is removed; a supervisor's CRD has what it needs; only conflicts are refused |
| Catalog: `catalog.go`, `supervisor/pig_supervisor/catalog.py` | none | fetch, verify, `Select` | the catalog URL | a republished version, duplicate versions | the answer depends only on the catalog and the pin |
| Publication and promotion: `supervisor/pig_supervisor/publication.py`, `promotion.py`, `.github/workflows/` | registry, git branches, pull requests, `catalog/` | evidence, package, publish charts, assemble, two promotion pull requests | GitHub, ghcr.io | partial publication and retry, concurrent runs | a published version never changes; the catalog names a manifest on main |
| Ingress handoff: `scripts/ingress-handoff.py` | none; the Ingress's owner and metadata | print a guarded JSON Patch from saved documents | an operator, who applies it; Helm | the Ingress changes after it was saved | a patch that still applies hands over exactly the Ingress that was inspected |
| Models, encodings, rendering: `models.go`, `object.go`, `workloads.go`, `pig_supervisor/models.py` | none | parse, validate, render | | | |
| Charts, Terraform, schemas, release data, CI | none at run time | | | | |

Interactions: the loop runs in a Pod whose process has come to lead, and each of its writes
passes through the gate of the leader election; releases reach it only through
the catalog that promotion writes; `selfUpdate` and `acceptance` are called
from the loop; the handoff script stands apart, since the supervisor has no
permission on Ingresses. `selfUpdate` is the one operation that reaches beyond
its namespace: all supervisors of a cluster share the CRD.

The hazards of each part, at the lines where they bite, are in `PROJECT.json`
under `hazards`, each with the properties that would notice.

## Modules

| Module | Contents |
|---|---|
| `Supervisor` | the reconcile loop of one namespace with the cluster it drives, and its properties |
| `Transition` | abstract specification of what it promises about releases and the schema |
| `MCSupervisor` | its instances: releases, catalogs, policies, starting points |
| `SupervisorProofs` | theorems about `Supervisor`: types, the migration |
| `TransitionProofs` | which release follows which, on which schema; that `Supervisor` implements `Transition` |
| `ChecksProofs` | that checks are fresh and `Ready` is honest |
| `WriteAuthority` | abstract specification of what leader election promises |
| `Leadership` | Lease, elector, gate and guarded transport, and its properties |
| `GuardedPasses` | `Leadership` with the passes of every Pod: who lists, calls and goes on after a stall |
| `MCGuardedPasses` | its instance, and that of `Leadership`, with the symmetry of the Pods |
| `LeadershipProofs` | theorems about `Leadership`, among them that it implements `WriteAuthority`, and about `GuardedPasses` |
| `Acceptance` | the acceptance Jobs and the `Acceptance` condition, and its properties |
| `MCAcceptance` | its instance |
| `AcceptanceProofs` | theorems about `Acceptance` |
| `Publication` | workflow runs, registry, tags, GitHub releases, promotion branches and pull requests, and its properties |
| `MCPublication` | its instances: builds that share sources and charts; symmetry of the runs |
| `PublicationProofs` | theorems about `Publication` |
| `CRDMerge` | the CRD merge by property paths, and the supervisors of several namespaces that patch one CRD |
| `SchemaTree` | the recursive functions of `crd.go` on schemas as trees |
| `MCCRDMerge` | an instance of `CRDMerge`, and the comparison of its merge with `SchemaTree` |
| `CRDMergeProofs` | theorems about `CRDMerge` |
| `Ownership` | owner checks, applies, status patches and the Ingress handoff around a `PIGDeployment` that is created again |
| `OwnershipProofs` | theorems about `Ownership` |

An operator whose name extends that of the operator after it
(`MayCancelAlways` before `MayCancel`) is a mutant of it: the same operator with
a plausible bug. No action uses a mutant. `PROJECT.json` lists for each property
of each run the mutant that the property must reject.

### Supervisor

One pass of the loop is three steps, four when it runs a Job:

* `List`: `namespaceReconciler.Reconcile` lists the object. From here to the
  end the pass works with this copy, `rec.spec` and `rec.status`.
* one action of `Reconcile`: what `Controller.reconcile` decides, with all its
  reads and the writes it makes. A pass makes the writes of at most one phase.
  In the three phases that run a Job this is two actions. `LookForJob` is the
  first look for the migration Job, on which the confirmation is checked
  (`controller.go:455-479`); `RunJob` is `job`, which looks again, lists the
  migration's Pods and creates the Job. Between the two the Job may be deleted
  and the confirmation withdrawn or expire.
* `Commit`: `Kube.Status` patches the status if the resourceVersion is still
  the listed one. `rec.fresh` is that comparison.

Between these anything else may happen.

| Action | Code in `controller.go` |
|---|---|
| `HoldPause` | the `Paused` blocks, 176-200 |
| `CatalogFails`, `DigestChanged` | errors of `Select`; `ImmutableReleaseChanged` 192-195 |
| `ReplaceTarget` | a newer policy or a repair replaces the target, 209-254, then 274-322 |
| `BeginTransition` | 274-322 |
| `Rebase` | the configuration changed under a transition, 325-339 |
| `Maintain` | nothing to do but keep the analyzer, 256-273 |
| `LookForJob` | a phase that runs a Job, 453-479: `RecoveryCheck` and `CapacityCheck` if there is no migration Job |
| `RunJob` = `StartJob`, `AwaitJob`, `PassJob`, `RetryJob` | `job`, 480-483 and 586-633 |
| `Advance` = `Quiesce`, `Rollout`, `UpdateSupervisor`, `Complete` | the other phases, 484-576 |
| `Refuse` | any failed precondition or any call that failed without effect |
| `LoseReply` | a write that took effect although its caller saw an error: the listed status is kept and blocked |
| `Crash`, `Restart`, `ReplacePod` | the supervisor's Pod; Recreate, so one at a time |
| `RetryElapses` | two minutes pass |
| `EditSpec`, `EditReferences`, `EditConfirmation` | operator and publisher; a confirmation is given, withdrawn or expires |
| `MigrateSchema`, `JobCompletes`, `JobFails`, `JobDeleted`, `MigratorExits` | Jobs and migration Pods (external) |
| `DeploymentObserved`, `PodExits`, `PodStarts`, `PodAvailable`, `PodFails` | the analyzer's Deployment (external) |

Each variable is commented where it is declared. Data is kept to what the code
compares: a release is its digest with version, schema revisions and declared
rollbacks; a configuration hash is the pair of the settings and the Secrets'
revision it is computed from; a time is whether it has passed; a Job name is
the record of the fields it is computed from. `transitionID`, random in the
code, is a counter: an ID that was drawn and never stored named no Job.
`confirmed` is the release the confirmation ConfigMap is valid for; a pass
reckons its age at the time the pass began, so one that expires during the pass
still counts in it (`rec.lapsed`). `vouched` is history: the migration Jobs whose
confirmation was found valid when a pass last looked for them and found none.

`ConfirmedMigration` says of every migration Job that it is vouched for, and so
states how far the code keeps `CONTRACT.md:237-238`, which has the confirmation
checked "immediately before starting a new migration Job". Two windows remain,
both within one pass: the confirmation may end between the first look and the
creation, and a Job that stood at the first look and was deleted before the
second is created again without a new check, on the confirmation its first
creation had.

Assumptions about the rest of the world, all in the external actions: a
migration commits in one transaction; the Pod of a Job that missed its
deadline, or was deleted, may run on for a while; a Recreate Deployment starts a
Pod of a new template only when the old ones are gone; the supervisor's new
image starts. A 409 on an Apply, an ownership conflict and an exceeded progress
deadline of the supervisor's own Deployment end a pass just as `Refuse` or
`LoseReply` do.

`Starts` is what a namespace may be when the supervisor first sees it: empty,
with a release installed, or with a transition that an older supervisor, which
recorded neither transition IDs nor the migration boundary, left at its
migration (`StartsFrom`). Such a transition is one that supervisor would begin:
its target may follow what is installed (`MayFollow`, the rule of
`controller.go:301-308`).

`Transition` says what all of this amounts to for an operator, with five
variables and no Jobs, passes or faults: which release may be worked for after
which, that a boundary is crossed before the schema changes and while nothing is
served, that beyond it a transition is not given up for the installed release
unless its target is refused, and that a release is served and installed only on
its own schema. `Promise` maps it: installed and pending are `current` and
`target` of the stored status, the boundary is `Crossed` (the stored
`migrationMayHaveRun`, or its absence in an unfinished transition), schema and
serving are those of the cluster. `Drop` covers a transition that a pause ends
before the boundary and one whose replacement was refused. The second is where
finding 1 shows: the target is forgotten beyond the boundary too, and `Begin` then compares with the installed
release only.

### Leadership

| Action | Code |
|---|---|
| `Renew`, `Attempt` | client-go's `tryAcquireOrRenew` (external), calling `PatchLeaseLock.Get`, `Create`, `Update`, `leadership.go:83-113` |
| `GetFails` | `Get` closes the gate, 85-88 |
| `Receive` | the API server applies a patch with a current resourceVersion (external) |
| `Finish`, `GiveUp` | `finish`, 114-126 |
| `Check`, `RoundTrip`, `Return` | `guardedTransport.RoundTrip`, 54-72, under the http client's timeout of `runtime.go:39` |
| `Restart` | the container starts again under the same `POD_UID` |
| `Tick` | the clock; a request that is out ends by its deadline |

Nothing forces a Pod to take its next step: every step may be preceded by an
arbitrary stall. All Pods read one clock; this stands for monotonic clocks that
run at the same rate, which client-go assumes. Nobody deletes the Lease. A
request the server accepted counts as over when its client's deadline passes:
`leadership.go:24` excludes anything later from what the gate promises.
Leadership is released by nobody (`LeaderElectionReleaseOnCancel: false`).

`WriteAuthority` is the promise: authority belongs to one Pod at a time and is
granted only when no other Pod's write is on its way. `Leadership` implements
it with `owner` the Pod whose gate is open and `writer` the Pod with a request
out.

### GuardedPasses

`Supervisor` is one supervisor. When a node is lost, partitioned or stalls, a
namespace may have two that believe to lead, and only writes are guarded: a Pod may
list, stall, lose the Lease, and go on. `GuardedPasses` extends `Leadership` by
what connects the two: per Pod the process's term (has it led, does it renew,
since when) and its pass, of which it keeps only whether another Pod's write has
taken effect since it listed (`overtaken`). What the writes contain is in
`Supervisor`.

| Action | Code |
|---|---|
| `Tries` | one try of client-go's `acquire` or `renew` (external), while a renewal is not older than `RenewDeadline` |
| `TryEnds` | `PatchLeaseLock.finish`, `leadership.go:114-126`; from its first success on the process leads |
| `ProcessEnds` | `Run` returns, `runtime.go:38-87`, when a renewal failed for `RenewDeadline` or the container dies |
| `List` | the manager runs the loop from the first acquisition to the end of the process; the list is not guarded, `runtime.go:92-99` |
| `Call`, `CallGoesOn` | a write through the guarded transport of `kube.go:83-95` |
| `TakeEffect` | the API server carries a request out (external) |
| `PassEnds` | `runtime.go:100-120` |

Nothing in it makes a process that should end do so at once: it may finish its
pass first. `RenewAssumption` is that `RenewDeadline` (240 s) is at most a Lease
duration (300 s). What a pass reads besides writing is covered as soon as it
writes: then no other Pod's write can have fallen between the list and that
write. A pass that only reads, and writes nothing, changes nothing. This is why
`Supervisor` may be one supervisor although the namespace has several.

### Acceptance

A pass is `List`, one action of `Act`, and `Commit`, as in `Supervisor`. What
`Supervisor` models in detail, a transition, is here only its two ends, `Begin`
and `Finish`; it does not touch the acceptance fields.

| Action | Code in `controller.go` |
|---|---|
| `StartCheck`, `AwaitCheck`, `FailCheck`, `PassCheck` | `acceptance`, 704-752, called from the settled pass, 256-266 |
| `Judged` | `acceptanceCondition`, 59-67, at the end of every pass that ends without an error |
| `Scheduled` | `acceptanceNextCheck` and `acceptanceAttempt`, 719-736 |
| `Blocked` | a pass that ends earlier, with the condition judged anew |
| `CallFails` | a failed call, before or after its effect: the listed status is kept as it was |
| `JobCompletes`, `JobFails`, `JobExpires`, `TimePasses` | Job controller, time-to-live, clock (external) |

A target is a release with the pair its configuration hash is computed from.
`completions` is a history variable: Jobs expire, evidence of them does not.

### Publication

A run of `publish.yml` is a record `run[r]` with the step it is at and what it
has read. Each step of the workflow whose order matters is an action.

| Action | Code |
|---|---|
| `Dispatch` | `publish.yml` 36-70: evidence and tags as of the checkout, `package` |
| `ChartStatus` | `chart_publication_needed`, `publication.py:208-223` |
| `PushChart`, `PullCharts` | `publish.yml` 74-95, `assemble` |
| `PushTag`, `CreateRelease`, `UploadAssets` | `publish.yml` 96-110 |
| `VerifyRelease` | `publish.yml` 111-118 |
| `PromoteByHand` | the `promote-draft` operation outside the workflow, `publication.py:367-374`: any manifest of the version |
| `FetchMain`, `LookForBranch`, `PushBranch`, `ListPulls`, `CreatePull` | `promote_draft`, `promotion.py:49-151`, one action per call whose answer others can change |
| `RunEnds` | a check that fails, a call that fails, a runner that is lost |
| `Merge`, `UpdateBranch`, `Maintain` | reviewers and maintainers on GitHub (external) |

A build is what accepted evidence fixes; the manifest, the archive and the
checksums are functions of it. Two builds may have the same source, or the same
bytes for one of the two charts, which is when a mixture would go unnoticed. A
commit of `main` is numbered; a promotion branch is the commit it is based on
and what it adds. `MayDispatch` is the workflow's concurrency group, which a run
by hand does not join.

Nothing ties a promotion by hand to a published GitHub release: the manifest may
be one that a run assembled before it ended, or of another build. `byHand` is
history: the pairs of version and build so promoted while that build's release was
not there in full. `CatalogSound` asks of such a pair only that its manifest is on
`main` and its entry the only one of the version; of every other entry, also
beside such promotions, it asks that everything is published.

### CRDMerge

| Action | Code |
|---|---|
| `Choose` | a transition begins or is replaced in a namespace (`Supervisor` has the details) |
| `RefuseCRD`, `KeepCRD`, `SendCRD` | `selfUpdate`, `controller.go:674-700`, up to the CRD patch |
| `PatchImage` | the patch of the supervisor's Deployment, 701 |
| `Complete` | a later pass finds the rollout complete, 533-554 |
| `PassEnds` | a call fails or times out, or the supervisor stops; the patch it sent may still arrive |
| `Deliver`, `LoseRequest` | the API server: a patch with a current resourceVersion is stored (external) |
| `EditCRD` | an operator applies a bootstrap CRD that only adds, or touches metadata (external) |

The code's schemas are nested objects and its functions recurse through them.
Here a schema is a function from property paths to whatever else the schema at
that path says, and then `SchemaAdditive` is inclusion and `AddedProperties` is
a union that prefers the installed side, about which TLAPS can reason.
`SchemaTree` transcribes the recursive functions, and `TreesAgree` compares the
two on every pair of CRDs the run meets. Attributes are two values, "the same"
and "different". The three fields of a CRD's spec that `AdditiveCRD` fills with
a default are one, `conversion`; those it does not are `scope`.

### Ownership

| Action | Code |
|---|---|
| `List` | `runtime.go:92-99` |
| `Read`, `Apply` | the two calls of `Apply`, `kube.go:126-156`; the phase `quiesce` checks owners the same way, `controller.go:484-499` |
| `Commit` | `Status`, `kube.go:172-186`, at the end of every pass that is not cut off |
| `PassEnds` | a call fails, or the supervisor stops |
| `SavePig`, `SaveIngress`, `Handoff` | the handoff of UPGRADING.md, 94-116; `Prepared` and `TestsHold` are the script's checks and the tests in its patch |
| `Edit` | other parties: the `PIGDeployment` deleted, created again or edited; objects and Ingresses created, edited, deleted (external) |
| `CollectObject`, `CollectIngress` | the garbage collector (external) |

`object` is one of the analyzer's resources. That the owner check and the apply
are two calls is the point: `NotTaken` allows an adoption only of an object that
came between them. `born` is a history field, the creation an object comes from.

## What the runs check

| Run | Question | Properties | Bounds | States |
|---|---|---|---|---|
| `upgrade` | an upgrade across a schema change, with failures and one edit; also one an older supervisor left at its migration; a version republished or listed twice | `TypeOK`, `MigrationExclusive`, `MigrationRecorded`, `ImplementsTransition` | 4 manifests of 3 versions, one with a CRD that does not merge, 1 edit, 2 faults, 2 retries | 593 k |
| `starts` | does it converge, from every start, after edits and failures, with a confirmation to give | `SchemaServed`, `Converges`, `PauseRestores`, `ConfirmedMigration` | 3 starts, 2 edits, 2 faults, 3 of them together, 2 retries | 266 k |
| `rotation` | settings changed, changed back, a Secret rotated, pauses | `FreshChecks`, `ReadyHonest`, `PauseHolds` | 2 settings, 2 edits, 1 of them a rotation, 1 fault, no retry | 653 k |
| `rollback` | pins up and down on one schema, from either end | `InstalledRollback`, `TargetRollback` | 3 pins, 2 edits, no rotation, 1 fault, no retry | 271 k |
| `takeover` | who may write, and whose pass still may after a takeover | `GuardedTypeOK`, `OneGate`, `WritesEndFirst`, `WritesAreCurrent`, `TakeoverWaits`, `LostForGood`, `ImplementsAuthority` | 2 Pods, Lease of 2 ticks, window, timeout and renew deadline of 1, clock to 4, 3 versions, 2 patches under way | 1.3 M |
| `acceptance` | what acceptance rests on, and whether it comes | `TypeOK`, `AcceptanceHonest`, `RecordRemains`, `EventuallyAccepted` | 2 releases, 2 edits or rotations, 1 fault, 2 rechecks | 321 k |
| `publication` | what stays and what the catalog selects | `TypeOK`, `CatalogSound`, `PublishedStays`, `BranchKept` | 1 version, 3 builds, 2 runs, 1 run that ends, 2 edits or 1 and an unpublished manifest by hand | 1.6 M |
| `promotion` | does a rerun complete | `Promoted` | 2 versions, 1 run at a time, 1 that ends, 1 unpublished manifest by hand | 968 k |
| `crd` | two namespaces and an operator at one CRD | `TypeOK`, `ImagesFit`, `BlockedRightly`, `TreesAgree`, `NothingRemoved`, `CompatibleUpdates` | 3 releases with 9 choices of CRDs over 6 paths, 3 choices of targets or edits, 1 pass cut off | 60 k |
| `ownership` | whose objects, whose status, and the handoff | `TypeOK`, `StatusOwn`, `NotTaken`, `HandoffLosesNothing`, `Reinstalled` | 2 `PIGDeployment`s of one name, 4 edits, 1 fault | 1.2 M |
| `repair_blocked` | finding 1 | `RollbackControlled` (violated) | 2 edits, no fault | |
| `rollback_stuck` | finding 2 | `RollbackAvailable` (violated) | 1 edit, no fault | |

All states are distinct states (`takeover` and `publication` up to the exchange
of the two Pods or runs).

**Why these bounds.** Three releases are what it takes for a target, its repair
and the installed release to differ. An edit is a decision of somebody outside;
two edits give every "changed and changed back", "paused and resumed" and
"pinned and pinned elsewhere", and each falls between any two steps of any
passes. A fault is a crash, a lost reply, a failed call, a failed or deleted
Job or a failed Pod; two of them cover a retry that fails too and a crash in
the recovery. `MaxEvents` bounds edits and faults together, where both at their
bounds would be too many: in `starts`, a pause, its end and a failure, or an edit
and a Job that fails with a crash before it is tried again. `MaxAttempt` bounds retries of one Job, and the state in which
they are used up is reached; `rotation` and `rollback` do without retries, which
`upgrade` covers. `MaxRevision` bounds how many of the edits may rotate a Secret.
In `upgrade` a fourth manifest carries the second version
once more, in a catalog of its own and beside the first, which `Select` must
refuse. In `acceptance` the edits are what it takes to leave a target
and come back to it. In `publication` an edit is what a maintainer does besides
merging (amended evidence, a closed or hand-opened pull request, a deleted
branch, another commit); `MaxByHand` bounds the unpublished manifests promoted by
hand, and each counts among the events; three builds are one whose evidence is replaced by one
with the same source and another worker chart, or by one with the same charts
and another manifest. Two versions in `promotion` make their catalog entries
conflict. In `crd` three choices are two namespaces that want different
releases and an operator in between; the nine CRD sets hold every way in which
two CRDs can differ (an optional property added beside, below or above what the
other adds, a conflicting one, another conversion, scope or number of versions,
no CRD at all). In `ownership` four edits are a deletion and a new creation of
the `PIGDeployment` with two acts of somebody else in between.
In `takeover` three versions are an acquisition, a renewal and a takeover, or a
takeover each way; a renewal may fail to the end of its deadline, the other Pod
take the Lease and write, and the first go on with its pass. The times are the
smallest that `ReserveAssumption` and `RenewAssumption` allow, where an
off-by-one shows, and the clock reaches two Lease durations. The properties of
`Leadership` are checked in this run too, under `GuardedSpec`; their theorems are
about `Spec`, where a Pod may also write outside a pass and renew for ever.
The theorems below are free of all these bounds.

**Deadlock** is checked in every run of `Supervisor`; a pass can always be
listed. In `takeover` the clock stops at `MaxTime` and versions at
`MaxVersion`, so the system may stop; in `crd` every namespace may have its release; in
`ownership` the `PIGDeployment` may be gone. No other cfg turns the deadlock
check off.

**Symmetry** is used in `takeover` (Pods) and `publication` (runs) only, where
the elements are interchangeable and every property is a safety property,
including the refinement of a specification without fairness.

**Fairness** (`FairSpec`, runs `starts` and `rollback_stuck`). Weak fairness
of `List`, `Reconcile` and `Commit`: the manager enqueues a pass every 15 s
(`runtime.go:65-79`). Of `Restart` and `ReplacePod`: the Deployment keeps one
Pod of its template. Of `RetryElapses`: two minutes pass. Of `MigrateSchema`,
`JobCompletes` and the analyzer's actions: Jobs and controllers make progress.
Of `MigratorExits`: Kubernetes terminates the Pods of a Job that is deleted or
past its `activeDeadlineSeconds` of 900 s (`workloads.go:120`). No fairness for failures or edits, and
none for `JobFails`: a Job that can pass passes or fails at most as often as
faults allow. Strong fairness is used nowhere in it. `Converges` is about a policy that
in the end asks for one release and goes on asking for it, with its confirmation
valid if it needs one, while nothing installed, begun or running as the
supervisor is a later release (`Forward`). Going back is left out because it is
not owed, unless declared, and finding 2 shows that even then it may never
complete. A Job of a release that can never pass, retries beyond `MaxAttempt`,
and a release whose CRD does not merge are not asked for either.

`Acceptance` assumes the same of the passes, that Jobs end (their deadline), and
that a scheduled time comes. `Publication` assumes that a run makes its steps,
that reviewers merge what is open and bring a conflicting branch forward (weak
fairness), and that maintainers rerun the publication of each version (strong
fairness of `Dispatch`, since other runs hold the concurrency group in between).
The last is what RELEASING.md tells them to do: "rerun publication".

`CRDMerge` assumes that every supervisor polls and that the API server answers
(weak fairness), and, strongly, that a rollout that is looked at in pass after
pass is at some time found complete: between two looks another pass is always
begun, so the step is enabled again and again but not all the time. `Ownership`
assumes the supervisor's steps and the garbage collector (weak fairness).
`Reinstalled` and `CompatibleUpdates` are about what happens once nobody
interferes, after whatever has happened before.

## Findings

1. **A blocked repair forgets which release has migrated** (`repair_blocked`).
   `CONTRACT.md:194`: "If an incomplete update has reached migration, its target
   manifest controls this check, even when the old release is still recorded as
   installed." Replacing a target clears `targetDigest` (`controller.go:250`)
   before the new release's own checks run (275-311). If one of them blocks,
   the status without the target is stored. From then on only the installed
   manifest is compared, and a pin to the installed release, or a pause, starts
   it although the migrated target's manifest does not declare it as a rollback.
2. **A declared rollback may never complete** (`rollback_stuck`).
   `CONTRACT.md:192` makes rollback available when it is declared on the same
   schema. If the unfinished target has already set the supervisor's image when
   its rollback to the installed release is pinned, the rollback reaches the
   phase `supervisor` with selected = current, `selfUpdate` is skipped
   (`controller.go:528`), and it waits for an image that nothing sets again.

## What is proved

The eight modules of proofs establish, for all values of the constants:

| Theorem | Statement |
|---|---|
| `LeadershipProofs!TypeCorrect` | `Spec => []TypeOK` |
| `OnlyOneGate` | `Spec => []OneGate` |
| `WritesEndBeforeTakeover` | `Spec => []WritesEndFirst` |
| `TakeoverTakesALease` | `Spec => TakeoverWaits` |
| `LeadershipImplementsAuthority` | `Spec => ImplementsAuthority` |
| `GuardedTypeCorrect` | `GuardedSpec => []GuardedTypeOK` |
| `PassesAreCurrent` | `GuardedSpec => []WritesAreCurrent` |
| `LosesForGood` | `GuardedSpec => LostForGood` |
| `SupervisorProofs!TypeCorrect` | `Spec => []TypeOK` |
| `MigrationIsExclusive` | `Spec => []MigrationExclusive` |
| `MigrationIsRecorded` | `Spec => []MigrationRecorded` |
| `TransitionProofs!ServedOnItsSchema` | `Spec => []SchemaServed` |
| `InstalledMayFollow` | `Spec => InstalledRollback` |
| `TargetMayGiveWay` | `Spec => TargetRollback` |
| `PauseStopsRelease` | `Spec => PauseHolds` |
| `MigrationConfirmed` | `Spec => []ConfirmedMigration` |
| `SupervisorImplementsTransition` | `Spec => ImplementsTransition` |
| `ChecksProofs!ChecksAreFresh` | `Spec => []FreshChecks` |
| `ReadyIsHonest` | `Spec => []ReadyHonest` |
| `AcceptanceProofs!TypeCorrect` | `Spec => []TypeOK` |
| `AcceptanceIsHonest` | `Spec => []AcceptanceHonest` |
| `EvidenceRemains` | `Spec => RecordRemains` |
| `PublicationProofs!TypeCorrect` | `Spec => []TypeOK` |
| `ArtifactsStay` | `Spec => PublishedStays` |
| `CatalogIsSound` | `Spec => []CatalogSound` |
| `BranchesKept` | `Spec => BranchKept` |
| `CRDMergeProofs!TypeCorrect` | `Spec => []TypeOK` |
| `ImagesStayFit` | `Spec => []ImagesFit` |
| `NothingIsRemoved` | `Spec => NothingRemoved` |
| `RefusalsAreRight` | `Spec => []BlockedRightly` |
| `NothingIsSentTwice` | a supervisor sends the CRD only while that lacks something its release needs |
| `MergesCommute` | two supervisors leave the same CRD in either order, and both orders are refused or neither |
| `MergeIsLeast` | if any CRD serves both sides, the merge is not refused and that CRD has everything the merge has |
| `OwnershipProofs!TypeCorrect` | `Spec => []TypeOK` |
| `StatusIsOwn` | `Spec => []StatusOwn` |
| `NothingTaken` | `Spec => NotTaken` |
| `HandoffIsLossless` | `Spec => HandoffLosesNothing` |

**Leadership.** Assumptions: `None` is not a Pod; durations and bounds are
natural numbers; `ReserveAssumption`, the window and the API timeout together
do not exceed the Lease, the comment of `leadership.go:23` as an inequality. None
of the safety properties is inductive: an open gate says nothing of the patches
that may still arrive. The invariant `IInv` measures everything against
`written`, the time at which the stored Lease was written. The holder's gate is
at most `written + WriteWindow`, its requests end by `written + WriteWindow +
Timeout`, which is at most `written + LeaseDuration`; everybody else's gate and
requests ended by `written`; and a patch that the server would still accept from
anybody else was sent at or after `written + LeaseDuration`. A takeover
therefore finds the old holder's requests ended. The refinement follows, one
action at a time, from the mapping of `owner` and `writer`.

**Passes under leadership.** Assumptions: those of Leadership, and
`RenewAssumption`. Every step of `GuardedPasses` is one of `Leadership` or leaves
its state alone (`GuardedStep`), so `IInv` and its theorems carry over
(`PassesRefineLeadership`). `WritesAreCurrent` alone is not inductive: a Pod whose
pass was overtaken must not come to hold the Lease again in that pass, or its gate
would open for it. `GuardedInv` therefore adds `LostInv`: no patch of a process that has led
could still take the Lease back. The patches it sent before its last success
name older versions. A later one names the present version only if it was sent
while the process held the Lease, or after the record it saw had expired. The
second is impossible: a process that has seen another holder has been renewing
since before it first saw that record (`RenewalInv`), so its deadline comes before
the record expires. From this follow `LostForGood`, that an overtaken
pass belongs to a Pod without the Lease (`OvertakenInv`), and, with the gate, that
it has nothing on its way.

**Supervisor.** Assumptions: `ReleaseAssumption` and `WorldAssumption`, the
types of the constants, and that a transition left by an older supervisor has
another release installed, which its target may follow. Exclusion is not
inductive, because between the listing and the commit of a pass its decisions
are not in the status yet. `IInv` adds: the fields of the stored status that name a Job change only by `Commit`,
so a pass in progress still holds what is stored (`Echo`); whatever migrates is
the Job named by the stored status, and a status in phase `migration` has its
boundary recorded and the analyzer down (`Migrating`); the same of the
status about to be committed; and that a pass between its two looks for a Job
has a target in a phase that runs one, whatever became of the catalog (`Looked`). Each action is a lemma. The interesting ones are
those that leave the phase `migration` (`PassJob`, `RetryJob`, `Rebase`,
`ReplaceTarget`), whose guards must ensure that no Pod is left; and `LoseReply`,
where a Job exists although the pass reports an error.

**Transitions** (`TransitionProofs`). One assumption is added: no release
migrates to a schema revision below one it accepts (`SchemaAssumption`, also of a
transition that an older supervisor left). It is true of the five manifests of
`catalog/releases`; no code and no schema checks it. It is needed where a target
that is also the installed release goes from `quiesce` to `rollout` without a
migration (`PhaseAfter`): its preflight accepted every revision it migrates from
as well as its own, and the database must be at its own because it is never
below the installed release's, and those it migrates from are not above it.

Each property relates two statuses that are two steps of a pass apart, so none
is inductive. `PassOutcome` first sums up the actions of `Reconcile` as nine
kinds of outcome (a pass goes on to get its Job, waits, gives up, finds the
release settled, opens a transition, drops its target, begins its checks anew,
passes a phase, completes). `TInv` then holds of the stored status and of the
outcome that a pass is about to commit, from its decision on (`Decided`): that
the schema is the installed release's until the boundary is crossed and the
target's from the rollout on (`OnSchema`), that the target may follow what is
installed (`Provenance`), the ways one status may follow another (`Moves`,
`TargetRule`, `PauseRule`), what completed Jobs have shown (`Results`), and that
a pass whose status can still be committed has listed the spec that stands
(`FreshList`). `Moves` has the shape of `Transition`'s actions, and the
refinement is read off it.

`MigrationConfirmed` needs an invariant of its own (`Vouching`), because a Job is
created one step after the look and may have been deleted in between: a pass that
is past its look for a migration Job of a guarded release has that Job vouched
for, whether it found the confirmation valid or found the Job, which was vouched
for already.

**Checks** (`ChecksProofs`). A Job is named by the transition's ID. `ChecksInv`
adds that the Jobs that stood when the checks began anew have lower IDs
(`Older`), so a completed one with the present ID has completed since
(`Counted`). For `ReadyHonest`, `ReadyInv` adds that from the end of the rollout
to the installation the Deployment is the target's (`Deployed`), which no pause
can undo since the boundary is marked by then (`Marked`).

**Acceptance.** Assumption: `AcceptanceAssumption`, the types of the constants.
The condition is written by one pass from a status listed earlier, so honesty
has to hold of the copies a pass carries too. `Sound` says of a status that the
Job it names completed at the time it states, that the accepted target is that
Job's, and that the condition holds exactly when it is about that target; `Inv`
says it of the stored status, the listed one and the result. For
`RecordRemains`, `Inv` adds that a fresh pass has listed the evidence that is
stored, and that its result keeps it (`Keeps`); a stale pass is refused.

**Publication.** Assumption: `PublicationAssumption`, that `None` is no value of
anything else. `TypeInv` adds to the types that a run has a version and a build
and, once it promotes, a branch name and a commit, and that an open pull request
has a branch. `ArtifactsStay` needs more, because `helm push` replaces whatever
it finds: at most one run of the workflow exists (`Serial`), and the charts that
run has yet to push are absent (`Pushing`). Tags and GitHub releases are created
only where there is none.

`CatalogIsSound` has to bridge the way from a run's verification to the merge of
the second pull request, with other runs, merges and maintainers in between.
`Selectable` says what a run has established at each step (`Established`), what
a branch proposes (`Proposals`: an entry for a commit of `main` that retains the
manifest, of a version published in full, and not in the catalog it is based
on), that `main` retains what it says it retains (`Retained`), and that what a
GitHub release holds is what tag and charts hold (`Artifacts`). Where nothing
compares the manifest with a release, the pair is on record as promoted by hand
(`Cleared`). All of these are about things that only grow, so they last from the step to the merge. The
publication of a second build under the same version is excluded by `Artifacts`,
a second entry by the merge itself, which conflicts.

**CRDMerge.** Assumption: `CRDAssumption`, the types of the constants, and that a
namespace's first release carries the CRD of the bootstrap or none. Lemmas about the merge
come first: `AdditiveCRD` is reflexive and transitive, what `MergeCRD` returns
adds to both of its arguments (`MergeAddsToBoth`), it refuses nothing that
differs only in optional properties (`CompatibleMerges`), and what is compatible
with a CRD was so with every smaller one (`CompatibleBefore`). The invariant
adds to the properties what patches under way are worth: one that the API server
would still accept only adds to the CRD as it is now, and one that its pass waits
for fits the release that pass works for (`RequestsFit`); and a pass that may
replace the image has a CRD that fits (`PassFits`). `ImagesFit` and
`BlockedRightly` then follow from the CRD only growing. `MergesCommute` is about
the merge alone; it holds because an additive merge keeps what is installed and
the two added parts agree where they meet, or the second is refused in either
order. Together with `NothingIsSentTwice` it says that supervisors which merge
into one CRD do not undo each other's patches. `MergeIsLeast` adds that the merge
is the least upper bound of the two sides under `AdditiveCRD`, up to the defaults:
`MergeCRD` refuses exactly when there is no CRD that could serve both.

**Ownership.** Assumption: `OwnershipAssumption`. `Inv` says that the
`PIGDeployment` a pass listed is the one that is there if its resourceVersion is
(`Versioned`), that an object which is still the one the pass read is the pass's
own (`ReadOwned`), and that a saved Ingress with the uid of the present one is an
earlier state of it, the same if the resourceVersion is (`SavedBefore`).

The invariants were model-checked on the instances above before they were
proved.

**Only model-checked**: `TreesAgree`, because what a recursive operator
computes for every tree is beyond this prover; the liveness properties
(`Converges`, `PauseRestores`, `EventuallyAccepted`, `Promoted`,
`CompatibleUpdates`, `Reinstalled`), because liveness under fairness and
`ENABLED` are; and the two findings. Every other property of the runs is proved.

## What is not modelled

The catalog's transport and verification are refusals in `Supervisor`: bounds
and digests of bytes in one call, without state. So are the requirement checks
and the check for Flux (`checkHandoff`), which only ever keep a pass from
beginning. `Supervisor` is one supervisor; `GuardedPasses` shows why that is enough, with the
passes abstracted to what is listed and written, and the two are not composed
action by action. A
`PIGDeployment` deleted and created again is in `Ownership` without its Jobs;
`UPGRADING.md:89` forbids it. Of publication, `candidate.yml` (which builds the
images), the validation of evidence and the local `promote` operation are left out. Parsing, encoding, rendering, Terraform
and Helm are data or declarations without state. Also outside: a supervisor
image that does not start, a clock that jumps, a Lease that is deleted, requests
carried out after their deadline, and what a migration does to the data.

Two pauses may be cut short, and the models let them: `retryAt` is not cleared
when a failed Job is deleted, created again under its name and completes
(`controller.go:568`), so a failure in a later phase is retried at once; and the
time of the next acceptance check is kept when the target changes (732), so the
first check of the new one may be repeated at once. The repository promises
neither pause, and no property asks for them.

## Plan

Done: `Leadership` and `WriteAuthority`; `GuardedPasses`; `Supervisor` and its exclusion and
record; `Transition`, which it implements; `Acceptance`; `Publication`;
`CRDMerge` and `SchemaTree`; `Ownership` with the handoff; `Select` with
duplicate and republished versions as part of `Supervisor`.

Proved: every invariant and action property of the passing runs but
`TreesAgree`, and both refinements.

Left, in this order:

1. A theorem that no run needs: how many passes of one creation `NotTaken`'s
   window can cover.
2. A second supervisor in `Supervisor` itself, as a second copy of `rec` under
   `GuardedPasses`: the state space of `upgrade` with it is out of reach, so the
   phases would have to be abstracted first.
3. Liveness of `Leadership`: a Lease that nobody renews is taken over. It is left
   to TLC.

## Running

```
tlc -config Upgrade.cfg MCSupervisor
tlc -config Takeover.cfg MCGuardedPasses
tlc -config Accept.cfg MCAcceptance
tlc -config Publish.cfg MCPublication
tlc -config CRD.cfg MCCRDMerge
tlc -config Ownership.cfg Ownership
tlapm LeadershipProofs.tla
tlapm SupervisorProofs.tla
tlapm TransitionProofs.tla
tlapm ChecksProofs.tla
tlapm AcceptanceProofs.tla
tlapm PublicationProofs.tla
tlapm CRDMergeProofs.tla
tlapm OwnershipProofs.tla
```

The remaining runs are `Starts.cfg`, `Rotation.cfg`, `Rollback.cfg`,
`RepairBlocked.cfg` and `RollbackStuck.cfg` of `MCSupervisor`, and `Promote.cfg`
of `MCPublication`.
