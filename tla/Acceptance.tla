----------------------------- MODULE Acceptance -----------------------------
(***************************************************************************)
(* The Acceptance condition of a PIGDeployment: acceptance and             *)
(* acceptanceCondition of internal/supervisor/controller.go.  While a      *)
(* release is installed with the configuration asked for, each pass of the *)
(* loop looks at one acceptance Job, named after release, configuration    *)
(* and attempt; what it finds is the evidence the status records.          *)
(*                                                                         *)
(* The passes are those of Supervisor (List, Act, Commit).  A transition   *)
(* is reduced to its two ends, Begin and Finish; what happens between them *)
(* is the subject of Supervisor and leaves the evidence alone.             *)
(*                                                                         *)
(* Abstracted: a target is a release with a configuration hash, the pair   *)
(* <<settings, revision>> the hash is computed from; acceptanceNextCheck   *)
(* to whether it has passed; completion times to the order of completions. *)
(* An operator whose name extends that of the one after it is a mutant.    *)
(***************************************************************************)
EXTENDS Naturals

CONSTANTS
    Releases,     \* digests of release manifests
    Settings,     \* contents of the spec outside spec.release
    None,         \* the absent value of a status field
    First,        \* the first spec, [release, settings]
    MaxEdits,     \* bound: edits of the spec and rotations of a Secret
    MaxFaults,    \* bound: crashes, failed calls, failed or expired Jobs, lost Pods
    MaxAttempt    \* bound: number of rechecks; the last one does not fail

Specs == [release : Releases, settings : Settings]
Targets == [release : Releases, hash : Settings \X Nat]
Names == [target : Targets, attempt : Nat]    \* what names an acceptance Job
Completions == [job : Names, at : Nat]

ASSUME AcceptanceAssumption ==
    /\ None \notin Targets /\ None \notin Names
    /\ First \in Specs
    /\ MaxEdits \in Nat /\ MaxFaults \in Nat /\ MaxAttempt \in Nat

VARIABLES
    spec,          \* the release the policy selects and the settings
    revision,      \* resourceVersions of the referenced Secrets
    status,        \* the status fields below
    rec,           \* the pass in progress: listed spec and status, fresh, result
    jobRunning, jobFailed,  \* acceptance Jobs that have not finished, that failed
    jobComplete,   \* those that completed, with their completionTime
    completions,   \* history: every completion there has been
    clock,         \* completionTime of the latest
    edits, faults  \* bounds

jobVars == <<jobRunning, jobFailed, jobComplete, completions, clock>>
vars == <<spec, revision, status, rec, jobVars, edits, faults>>

Statuses ==
    [installed : Targets \cup {None},   \* None while a transition is under way
     attempt : Nat,                     \* acceptanceAttempt
     nextCheck : {"none", "waiting", "due"},   \* acceptanceNextCheck
     accepted : Targets \cup {None},    \* acceptedReleaseDigest, acceptedConfigurationHash
     acceptedJob : Names \cup {None},
     acceptedAt : Nat,                  \* lastAcceptanceAt
     judged : Targets \cup {None},      \* what the Acceptance condition is about
     ok : BOOLEAN]                      \* its status
NoEvidence ==
    [installed |-> None, attempt |-> 0, nextCheck |-> "none", accepted |-> None,
     acceptedJob |-> None, acceptedAt |-> 0, judged |-> None, ok |-> FALSE]
Idle == [pc |-> "idle", spec |-> First, status |-> NoEvidence,
         fresh |-> FALSE, out |-> NoEvidence]

Init ==
    /\ spec = First /\ revision = 0
    /\ status = NoEvidence /\ rec = Idle
    /\ jobRunning = {} /\ jobFailed = {} /\ jobComplete = {}
    /\ completions = {} /\ clock = 0
    /\ edits = 0 /\ faults = 0

-----------------------------------------------------------------------------
(* What a pass works for: the listed spec with the Secrets as they are now. *)
Target == [release |-> rec.spec.release, hash |-> <<rec.spec.settings, revision>>]
Job == [target |-> Target, attempt |-> rec.status.attempt]
Existing == jobRunning \cup jobFailed \cup {c.job : c \in jobComplete}

\* acceptanceCondition
JudgedByRelease(s) ==
    [s EXCEPT !.judged = Target,
              !.ok = s.accepted # None /\ s.accepted.release = Target.release]
Judged(s) == [s EXCEPT !.judged = Target, !.ok = (s.accepted = Target)]

\* The next check of a finished Job: scheduled, awaited, or made by moving on
\* to the next attempt.
ScheduledSameAttempt(s) ==
    CASE s.nextCheck = "none" -> [s EXCEPT !.nextCheck = "waiting"]
      [] s.nextCheck = "due" -> [s EXCEPT !.nextCheck = "none"]
      [] OTHER -> s
Scheduled(s) ==
    CASE s.nextCheck = "none" -> [s EXCEPT !.nextCheck = "waiting"]
      [] s.nextCheck = "due" /\ s.attempt < MaxAttempt ->
            [s EXCEPT !.attempt = @ + 1, !.nextCheck = "none"]
      [] OTHER -> s

\* The evidence of a completed Job; a name already recorded keeps its time.
RecordedTarget(s, at) ==
    [s EXCEPT !.accepted = Target, !.acceptedJob = Target, !.acceptedAt = at]
Recorded(s, at) ==
    [s EXCEPT !.accepted = Target, !.acceptedJob = Job,
              !.acceptedAt = IF s.acceptedJob = Job THEN @ ELSE at]

-----------------------------------------------------------------------------
(* A pass.                                                                 *)
Reply(s) == rec' = [rec EXCEPT !.pc = "commit", !.out = s]

List ==
    /\ rec.pc = "idle"
    /\ rec' = [pc |-> "act", spec |-> spec, status |-> status, fresh |-> TRUE, out |-> status]
    /\ UNCHANGED <<spec, revision, status, jobVars, edits, faults>>

\* A new release or configuration starts a transition, which ends some passes
\* later with that target installed.
Begin ==
    /\ rec.pc = "act" /\ rec.status.installed \notin {None, Target}
    /\ Reply([Judged(rec.status) EXCEPT !.installed = None])
    /\ UNCHANGED <<spec, revision, status, jobVars, edits, faults>>
Finish ==
    /\ rec.pc = "act" /\ rec.status.installed = None
    /\ Reply([Judged(rec.status) EXCEPT !.installed = Target])
    /\ UNCHANGED <<spec, revision, status, jobVars, edits, faults>>

Settled == rec.pc = "act" /\ rec.status.installed = Target

StartCheck ==
    /\ Settled /\ Job \notin Existing
    /\ jobRunning' = jobRunning \cup {Job}
    /\ Reply(Judged(rec.status))
    /\ UNCHANGED <<spec, revision, status, jobFailed, jobComplete, completions, clock,
                   edits, faults>>

AwaitCheck ==
    /\ Settled /\ Job \in jobRunning
    /\ Reply(Judged(rec.status))
    /\ UNCHANGED <<spec, revision, status, jobVars, edits, faults>>

MissedForgetting(s) == Judged(Scheduled([s EXCEPT !.accepted = None]))
Missed(s) == Judged(Scheduled(s))
FailCheck ==
    /\ Settled /\ Job \in jobFailed
    /\ Reply(Missed(rec.status))
    /\ UNCHANGED <<spec, revision, status, jobVars, edits, faults>>

PassCheck ==
    /\ Settled
    /\ \E c \in jobComplete :
          c.job = Job /\ Reply(Judged(Recorded(Scheduled(rec.status), c.at)))
    /\ UNCHANGED <<spec, revision, status, jobVars, edits, faults>>

Act == Begin \/ Finish \/ StartCheck \/ AwaitCheck \/ FailCheck \/ PassCheck

VersionMatches == rec.fresh

\* A check time the pass left alone may have come meanwhile.
Commit ==
    /\ rec.pc = "commit"
    /\ status' = IF VersionMatches
                 THEN [rec.out EXCEPT !.nextCheck =
                         IF @ = rec.status.nextCheck THEN status.nextCheck ELSE @]
                 ELSE status
    /\ rec' = Idle
    /\ UNCHANGED <<spec, revision, jobVars, edits, faults>>

-----------------------------------------------------------------------------
(* Faults of a pass.                                                       *)
\* The pass is blocked, say by an analyzer that is not ready or by a check
\* before the transition, after it has judged the condition anew.
Blocked ==
    /\ rec.pc = "act" /\ faults < MaxFaults
    /\ Reply(Judged(rec.status))
    /\ faults' = faults + 1
    /\ UNCHANGED <<spec, revision, status, jobVars, edits>>

\* A call fails before its effect, or after it when its answer is lost: the
\* listed status stands, and the condition is not judged anew.
CallFails ==
    /\ rec.pc \in {"act", "commit"} /\ faults < MaxFaults
    /\ Reply(rec.status)
    /\ faults' = faults + 1
    /\ UNCHANGED <<spec, revision, status, jobVars, edits>>

Crash ==
    /\ rec.pc # "idle" /\ faults < MaxFaults
    /\ rec' = Idle
    /\ faults' = faults + 1
    /\ UNCHANGED <<spec, revision, status, jobVars, edits>>

-----------------------------------------------------------------------------
(* The operator, time and the Job controller (external).                   *)
EditSpec ==
    /\ edits < MaxEdits
    /\ spec' \in Specs \ {spec}
    /\ rec' = [rec EXCEPT !.fresh = FALSE]
    /\ edits' = edits + 1
    /\ UNCHANGED <<revision, status, jobVars, faults>>

Rotate ==
    /\ edits < MaxEdits
    /\ revision' = revision + 1
    /\ edits' = edits + 1
    /\ UNCHANGED <<spec, status, rec, jobVars, faults>>

TimePasses ==
    /\ status.nextCheck = "waiting"
    /\ status' = [status EXCEPT !.nextCheck = "due"]
    /\ UNCHANGED <<spec, revision, rec, jobVars, edits, faults>>

JobCompletes ==
    /\ \E n \in jobRunning :
          /\ jobRunning' = jobRunning \ {n}
          /\ jobComplete' = jobComplete \cup {[job |-> n, at |-> clock + 1]}
          /\ completions' = completions \cup {[job |-> n, at |-> clock + 1]}
          /\ clock' = clock + 1
    /\ UNCHANGED <<spec, revision, status, rec, jobFailed, edits, faults>>

JobFails ==
    /\ faults < MaxFaults
    /\ \E n \in jobRunning :
          /\ n.attempt < MaxAttempt
          /\ jobRunning' = jobRunning \ {n}
          /\ jobFailed' = jobFailed \cup {n}
    /\ faults' = faults + 1
    /\ UNCHANGED <<spec, revision, status, rec, jobComplete, completions, clock, edits>>

\* ttlSecondsAfterFinished, or an operator, removes a finished Job.
JobExpires ==
    /\ faults < MaxFaults
    /\ \/ \E n \in jobFailed : jobFailed' = jobFailed \ {n} /\ UNCHANGED jobComplete
       \/ \E c \in jobComplete : jobComplete' = jobComplete \ {c} /\ UNCHANGED jobFailed
    /\ faults' = faults + 1
    /\ UNCHANGED <<spec, revision, status, rec, jobRunning, completions, clock, edits>>

Process == List \/ Act \/ Commit
Faults == Blocked \/ CallFails \/ Crash \/ JobFails \/ JobExpires
World == EditSpec \/ Rotate \/ TimePasses \/ JobCompletes
Next == Process \/ Faults \/ World
Spec == Init /\ [][Next]_vars

\* The manager polls every 15 seconds, Jobs have a deadline, and time passes.
FairSpec ==
    /\ Spec
    /\ WF_vars(List) /\ WF_vars(Act) /\ WF_vars(Commit)
    /\ WF_vars(TimePasses) /\ WF_vars(JobCompletes)

-----------------------------------------------------------------------------
(* Correctness.                                                            *)

\* Every variable keeps its type.
TypeOK ==
    /\ spec \in Specs /\ revision \in Nat /\ status \in Statuses
    /\ rec \in [pc : {"idle", "act", "commit"}, spec : Specs, status : Statuses,
                fresh : BOOLEAN, out : Statuses]
    /\ jobRunning \subseteq Names /\ jobFailed \subseteq Names
    /\ jobComplete \subseteq Completions /\ completions \subseteq Completions
    /\ clock \in Nat /\ edits \in Nat /\ faults \in Nat

\* Acceptance=True rests on evidence (CONTRACT.md, "The separate Acceptance
\* condition requires evidence from the real host pipeline"): a Job for exactly
\* the release and configuration the condition is about has completed, at the
\* time lastAcceptanceAt states, whatever failed, expired or changed since.
AcceptanceHonest ==
    status.ok => \E c \in completions :
        /\ c.job = status.acceptedJob /\ c.at = status.acceptedAt
        /\ c.job.target = status.judged

\* CONTRACT.md, "A recorded acceptance remains evidence for that release and
\* configuration": a failed or unfinished recheck, a transition or a crash does
\* not take it back; only the acceptance of the target judged then replaces it.
RecordRemains ==
    [][status.accepted # None =>
         /\ status'.accepted \in {status.accepted, status'.judged}
         /\ status'.judged = status'.accepted => status'.ok]_vars

\* Once the policy asks for one release and configuration and goes on asking,
\* it is accepted and stays so: no failed Job, stale schedule of an earlier
\* target or lost status leaves the condition waiting forever.
EventuallyAccepted ==
    \A s \in Specs, n \in 0 .. MaxEdits :
        <>[](spec = s /\ revision = n) =>
            <>[](status.ok /\ status.judged = [release |-> s.release, hash |-> <<s.settings, n>>])
=============================================================================
