-------------------------- MODULE AcceptanceProofs --------------------------
(***************************************************************************)
(* Proofs about Acceptance: the type invariant, that the condition rests   *)
(* on a completed Job for its own target, and that recorded evidence is    *)
(* not taken back.  A status is sound when its three parts agree: the Job  *)
(* it names completed at the time it states, the accepted target is that   *)
(* Job's, and the condition holds exactly when it is about that target.    *)
(* Soundness has to hold of the copies a pass works on as well.            *)
(***************************************************************************)
EXTENDS Acceptance, TLAPS

-----------------------------------------------------------------------------
(* Types.                                                                  *)

\* What a pass works for is a target, and its Job has a name.
LEMMA TargetType ==
    ASSUME TypeOK
    PROVE  Target \in Targets /\ Job \in Names
BY DEF TypeOK, Target, Job, Targets, Names, Specs, Statuses

\* The helpers of a pass keep a status a status.
LEMMA HelpersType ==
    ASSUME TypeOK, NEW s \in Statuses, NEW at \in Nat
    PROVE  /\ Judged(s) \in Statuses
           /\ Scheduled(s) \in Statuses
           /\ Recorded(s, at) \in Statuses
<1> USE TargetType, AcceptanceAssumption
<1>1. Judged(s) \in Statuses
    BY DEF Judged, Statuses
<1>2. Scheduled(s) \in Statuses
    <2>1. [s EXCEPT !.nextCheck = "waiting"] \in Statuses
        BY DEF Statuses
    <2>2. s.attempt \in Nat /\ s.attempt + 1 \in Nat
        BY DEF Statuses
    <2>3. [s EXCEPT !.attempt = s.attempt + 1, !.nextCheck = "none"] \in Statuses
        <3> DEFINE n == s.attempt + 1
        <3>1. n \in Nat
            BY <2>2
        <3> HIDE DEF n
        <3>2. [s EXCEPT !.attempt = n, !.nextCheck = "none"] \in Statuses
            BY <3>1 DEF Statuses
        <3> QED BY <3>2 DEF n
    <2>4. \/ Scheduled(s) = [s EXCEPT !.nextCheck = "waiting"]
          \/ Scheduled(s) = [s EXCEPT !.attempt = s.attempt + 1, !.nextCheck = "none"]
          \/ Scheduled(s) = s
        <3>1. CASE s.nextCheck = "none"
            BY <3>1 DEF Scheduled
        <3>2. CASE s.nextCheck = "due" /\ s.attempt < MaxAttempt
            BY <3>2 DEF Scheduled
        <3>3. CASE s.nextCheck # "none" /\ ~(s.nextCheck = "due" /\ s.attempt < MaxAttempt)
            BY <3>3 DEF Scheduled
        <3> QED BY <3>1, <3>2, <3>3
    <2> QED BY <2>1, <2>3, <2>4
<1>3. Recorded(s, at) \in Statuses
    BY DEF Recorded, Statuses
<1> QED BY <1>1, <1>2, <1>3

\* The first status is a status.
LEMMA NoEvidenceType == NoEvidence \in Statuses /\ Idle.pc = "idle"
BY DEF NoEvidence, Statuses, Idle

\* A reply leaves a typed pass.
LEMMA ReplyType ==
    ASSUME TypeOK, NEW s \in Statuses, Reply(s)
    PROVE  rec' \in [pc : {"idle", "act", "commit"}, spec : Specs, status : Statuses,
                     fresh : BOOLEAN, out : Statuses]
BY DEF TypeOK, Reply

\* Every reachable state is typed.
THEOREM TypeCorrect == Spec => []TypeOK
<1>1. Init => TypeOK
    BY AcceptanceAssumption, NoEvidenceType DEF Init, TypeOK, Idle
<1>2. TypeOK /\ [Next]_vars => TypeOK'
    <2> SUFFICES ASSUME TypeOK, [Next]_vars PROVE TypeOK'
        OBVIOUS
    <2>a. rec.status \in Statuses
        BY DEF TypeOK
    <2>1. CASE List
        BY <2>1 DEF List, TypeOK, jobVars
    <2>2. CASE Act
        <3>1. CASE Begin
            <4>1. [Judged(rec.status) EXCEPT !.installed = None] \in Statuses
                BY <2>a, HelpersType DEF Statuses
            <4> QED BY <3>1, <4>1, ReplyType DEF Begin, TypeOK, jobVars
        <3>2. CASE Finish
            <4>1. [Judged(rec.status) EXCEPT !.installed = Target] \in Statuses
                BY <2>a, HelpersType, TargetType DEF Statuses
            <4> QED BY <3>2, <4>1, ReplyType DEF Finish, TypeOK, jobVars
        <3>3. CASE StartCheck
            <4>1. Judged(rec.status) \in Statuses
                BY <2>a, HelpersType
            <4>2. rec' \in [pc : {"idle", "act", "commit"}, spec : Specs, status : Statuses,
                            fresh : BOOLEAN, out : Statuses]
                BY <3>3, <4>1, ReplyType DEF StartCheck
            <4> QED BY <3>3, <4>2, TargetType DEF StartCheck, TypeOK
        <3>4. CASE AwaitCheck
            BY <3>4, <2>a, HelpersType, ReplyType DEF AwaitCheck, TypeOK, jobVars
        <3>5. CASE FailCheck
            <4>1. Missed(rec.status) \in Statuses
                BY <2>a, HelpersType DEF Missed
            <4> QED BY <3>5, <4>1, ReplyType DEF FailCheck, TypeOK, jobVars
        <3>6. CASE PassCheck
            <4>1. PICK c \in jobComplete :
                     Reply(Judged(Recorded(Scheduled(rec.status), c.at)))
                BY <3>6 DEF PassCheck
            <4>2. c.at \in Nat
                BY DEF TypeOK, Completions
            <4>3. Judged(Recorded(Scheduled(rec.status), c.at)) \in Statuses
                BY <2>a, <4>2, HelpersType
            <4> QED BY <3>6, <4>1, <4>3, ReplyType DEF PassCheck, TypeOK, jobVars
        <3> QED BY <2>2, <3>1, <3>2, <3>3, <3>4, <3>5, <3>6 DEF Act
    <2>3. CASE Commit
        <3>1. status' \in Statuses
            BY <2>3 DEF Commit, TypeOK, Statuses
        <3> QED BY <2>3, <3>1, AcceptanceAssumption, NoEvidenceType
                DEF Commit, TypeOK, Idle, jobVars
    <2>4. CASE Blocked
        BY <2>4, <2>a, HelpersType, ReplyType DEF Blocked, TypeOK, jobVars
    <2>5. CASE CallFails
        BY <2>5, <2>a, ReplyType DEF CallFails, TypeOK, jobVars
    <2>6. CASE Crash
        BY <2>6, AcceptanceAssumption, NoEvidenceType DEF Crash, TypeOK, Idle, jobVars
    <2>7. CASE JobFails
        BY <2>7 DEF JobFails, TypeOK
    <2>8. CASE JobExpires
        BY <2>8 DEF JobExpires, TypeOK
    <2>9. CASE EditSpec
        <3>1. [rec EXCEPT !.fresh = FALSE] \in
                 [pc : {"idle", "act", "commit"}, spec : Specs, status : Statuses,
                  fresh : BOOLEAN, out : Statuses]
            BY DEF TypeOK
        <3>2. spec' \in Specs /\ edits' \in Nat
            BY <2>9 DEF EditSpec, TypeOK
        <3> QED BY <2>9, <3>1, <3>2 DEF EditSpec, TypeOK, jobVars
    <2>10. CASE Rotate
        BY <2>10 DEF Rotate, TypeOK, jobVars
    <2>11. CASE TimePasses
        BY <2>11 DEF TimePasses, TypeOK, Statuses, jobVars
    <2>12. CASE JobCompletes
        <3>1. PICK n \in jobRunning :
                 /\ jobRunning' = jobRunning \ {n}
                 /\ jobComplete' = jobComplete \cup {[job |-> n, at |-> clock + 1]}
                 /\ completions' = completions \cup {[job |-> n, at |-> clock + 1]}
                 /\ clock' = clock + 1
            BY <2>12 DEF JobCompletes
        <3>2. [job |-> n, at |-> clock + 1] \in Completions
            BY DEF TypeOK, Completions
        <3> QED BY <2>12, <3>1, <3>2 DEF JobCompletes, TypeOK
    <2>13. CASE UNCHANGED vars
        BY <2>13 DEF vars, jobVars, TypeOK
    <2> QED
        BY <2>1, <2>2, <2>3, <2>4, <2>5, <2>6, <2>7, <2>8, <2>9, <2>10, <2>11, <2>12, <2>13
        DEF Next, Process, Faults, World
<1> QED BY <1>1, <1>2, PTL DEF Spec

-----------------------------------------------------------------------------
(* Soundness.                                                              *)
Witnessed(n, at, done) == \E c \in done : c.job = n /\ c.at = at
Agrees(s) ==
    /\ s.accepted # None => s.acceptedJob # None /\ s.acceptedJob.target = s.accepted
    /\ s.ok = (s.accepted # None /\ s.accepted = s.judged)
Sound(s, done) ==
    /\ s.acceptedJob # None => Witnessed(s.acceptedJob, s.acceptedAt, done)
    /\ Agrees(s)

\* A step from evidence s to evidence t takes nothing back.
Keeps(s, t) ==
    s.accepted # None => /\ t.accepted \in {s.accepted, t.judged}
                         /\ t.judged = t.accepted => t.ok

Inv ==
    /\ TypeOK
    /\ jobComplete \subseteq completions
    /\ Sound(status, completions) /\ Sound(rec.status, completions)
    /\ Sound(rec.out, completions)
    /\ rec.fresh => rec.status.accepted = status.accepted
    /\ Keeps(rec.status, rec.out)

\* Evidence stays evidence when more Jobs complete.
LEMMA SoundGrows ==
    ASSUME NEW s, NEW done, NEW more, Sound(s, done), done \subseteq more
    PROVE  Sound(s, more)
BY DEF Sound, Witnessed

\* A sound status keeps its own evidence.
LEMMA KeepsSelf ==
    ASSUME NEW s, NEW done, Sound(s, done)
    PROVE  Keeps(s, s)
BY DEF Keeps, Sound, Agrees

\* Fields the evidence does not consist of may change.
LEMMA SoundFields ==
    ASSUME NEW s \in Statuses, NEW t \in Statuses, NEW done, Sound(s, done),
           t.accepted = s.accepted, t.acceptedJob = s.acceptedJob,
           t.acceptedAt = s.acceptedAt, t.judged = s.judged, t.ok = s.ok
    PROVE  Sound(t, done)
BY DEF Sound, Agrees

\* Judging a status anew keeps it sound and keeps its evidence.
LEMMA JudgedSound ==
    ASSUME TypeOK, NEW s \in Statuses, NEW done,
           s.acceptedJob # None => Witnessed(s.acceptedJob, s.acceptedAt, done),
           s.accepted # None => s.acceptedJob # None /\ s.acceptedJob.target = s.accepted
    PROVE  /\ Sound(Judged(s), done)
           /\ Judged(s).accepted = s.accepted
           /\ Judged(s).judged = Target
           /\ Judged(s).judged = Judged(s).accepted => Judged(s).ok
<1>1. Target # None
    BY TargetType, AcceptanceAssumption
<1>2. /\ Judged(s).accepted = s.accepted /\ Judged(s).acceptedJob = s.acceptedJob
      /\ Judged(s).acceptedAt = s.acceptedAt
      /\ Judged(s).judged = Target /\ Judged(s).ok = (s.accepted = Target)
    BY DEF Judged, Statuses
<1> QED BY <1>1, <1>2 DEF Sound, Agrees

\* Scheduling touches neither the evidence nor the condition.
LEMMA ScheduledEvidence ==
    ASSUME NEW s \in Statuses
    PROVE  /\ Scheduled(s).accepted = s.accepted
           /\ Scheduled(s).acceptedJob = s.acceptedJob
           /\ Scheduled(s).acceptedAt = s.acceptedAt
BY DEF Scheduled, Statuses

\* A completed Job's evidence is sound, for a new name and for one on record.
LEMMA RecordedSound ==
    ASSUME TypeOK, NEW s \in Statuses, NEW c \in completions, c.job = Job,
           s.acceptedJob # None => Witnessed(s.acceptedJob, s.acceptedAt, completions)
    PROVE  LET t == Recorded(s, c.at) IN
           /\ t.acceptedJob = Job /\ t.acceptedJob # None
           /\ Witnessed(t.acceptedJob, t.acceptedAt, completions)
           /\ t.accepted = Target /\ t.acceptedJob.target = t.accepted
<1>1. Job # None /\ Job.target = Target
    BY TargetType, AcceptanceAssumption DEF Job
<1>2. /\ Recorded(s, c.at).acceptedJob = Job /\ Recorded(s, c.at).accepted = Target
      /\ Recorded(s, c.at).acceptedAt = IF s.acceptedJob = Job THEN s.acceptedAt ELSE c.at
    BY DEF Recorded, Statuses
<1>3. Witnessed(Job, Recorded(s, c.at).acceptedAt, completions)
    BY <1>1, <1>2 DEF Witnessed
<1> QED BY <1>1, <1>2, <1>3

\* A reply with a sound status that keeps the listed evidence keeps Inv.
LEMMA ReplySound ==
    ASSUME Inv, TypeOK', NEW t \in Statuses, Reply(t), Sound(t, completions),
           Keeps(rec.status, t), UNCHANGED <<status, jobComplete, completions>>
    PROVE  Inv'
<1>1. /\ rec'.out = t /\ rec'.status = rec.status /\ rec'.fresh = rec.fresh
    BY DEF Inv, TypeOK, Reply
<1>2. Sound(status', completions') /\ Sound(rec'.status, completions')
    BY <1>1 DEF Inv
<1>3. Sound(rec'.out, completions') /\ Keeps(rec'.status, rec'.out)
    BY <1>1
<1> QED BY <1>1, <1>2, <1>3 DEF Inv

\* A pass that only judges the listed status anew, or changes installed too.
LEMMA JudgedStep ==
    ASSUME Inv
    PROVE  /\ Judged(rec.status) \in Statuses
           /\ Sound(Judged(rec.status), completions)
           /\ Keeps(rec.status, Judged(rec.status))
<1>1. TypeOK /\ rec.status \in Statuses /\ Sound(rec.status, completions)
    BY DEF Inv, TypeOK
<1>2. Sound(Judged(rec.status), completions)
    BY <1>1, JudgedSound DEF Sound, Agrees
<1>3. Keeps(rec.status, Judged(rec.status))
    BY <1>1, JudgedSound DEF Sound, Agrees, Keeps
<1> QED BY <1>1, <1>2, <1>3, HelpersType

\* The first pass has sound copies.
LEMMA IdleSound ==
    ASSUME NEW done
    PROVE  /\ Sound(NoEvidence, done) /\ Keeps(NoEvidence, NoEvidence)
           /\ Idle.status = NoEvidence /\ Idle.out = NoEvidence /\ Idle.fresh = FALSE
BY DEF Sound, Agrees, Keeps, NoEvidence, Idle

\* Inv is inductive.
LEMMA InvInductive == Inv /\ TypeOK' /\ [Next]_vars => Inv'
<1> SUFFICES ASSUME Inv, TypeOK', [Next]_vars PROVE Inv'
    OBVIOUS
<1>a. TypeOK /\ rec.status \in Statuses /\ Sound(rec.status, completions)
    BY DEF Inv, TypeOK
<1>1. CASE List
    <2>1. /\ rec'.status = status /\ rec'.out = status
          /\ UNCHANGED <<status, jobComplete, completions>>
        BY <1>1 DEF List, jobVars
    <2>2. Sound(status, completions) /\ Keeps(status, status)
        BY KeepsSelf DEF Inv
    <2> QED BY <2>1, <2>2 DEF Inv
<1>2. CASE Act
    <2>1. CASE Begin
        <3> DEFINE t == [Judged(rec.status) EXCEPT !.installed = None]
        <3>1. t \in Statuses /\ Sound(t, completions) /\ Keeps(rec.status, t)
            <4>1. /\ t \in Statuses
                  /\ t.accepted = Judged(rec.status).accepted
                  /\ t.acceptedJob = Judged(rec.status).acceptedJob
                  /\ t.acceptedAt = Judged(rec.status).acceptedAt
                  /\ t.judged = Judged(rec.status).judged /\ t.ok = Judged(rec.status).ok
                BY JudgedStep DEF Statuses
            <4>2. Sound(t, completions)
                BY <4>1, JudgedStep, SoundFields
            <4>3. Keeps(rec.status, t)
                BY <4>1, JudgedStep DEF Keeps
            <4> QED BY <4>1, <4>2, <4>3
        <3>2. Reply(t) /\ UNCHANGED <<status, jobComplete, completions>>
            BY <2>1 DEF Begin, jobVars
        <3> HIDE DEF t
        <3> QED BY <3>1, <3>2, ReplySound
    <2>2. CASE Finish
        <3> DEFINE t == [Judged(rec.status) EXCEPT !.installed = Target]
        <3>1. t \in Statuses /\ Sound(t, completions) /\ Keeps(rec.status, t)
            <4>1. /\ t \in Statuses
                  /\ t.accepted = Judged(rec.status).accepted
                  /\ t.acceptedJob = Judged(rec.status).acceptedJob
                  /\ t.acceptedAt = Judged(rec.status).acceptedAt
                  /\ t.judged = Judged(rec.status).judged /\ t.ok = Judged(rec.status).ok
                BY <1>a, TargetType, JudgedStep DEF Statuses
            <4>2. Sound(t, completions)
                BY <4>1, JudgedStep, SoundFields
            <4>3. Keeps(rec.status, t)
                BY <4>1, JudgedStep DEF Keeps
            <4> QED BY <4>1, <4>2, <4>3
        <3>2. Reply(t) /\ UNCHANGED <<status, jobComplete, completions>>
            BY <2>2 DEF Finish, jobVars
        <3> HIDE DEF t
        <3> QED BY <3>1, <3>2, ReplySound
    <2>3. CASE StartCheck
        <3>1. Reply(Judged(rec.status)) /\ UNCHANGED <<status, jobComplete, completions>>
            BY <2>3 DEF StartCheck
        <3> QED BY <3>1, JudgedStep, ReplySound
    <2>4. CASE AwaitCheck
        <3>1. Reply(Judged(rec.status)) /\ UNCHANGED <<status, jobComplete, completions>>
            BY <2>4 DEF AwaitCheck, jobVars
        <3> QED BY <3>1, JudgedStep, ReplySound
    <2>5. CASE FailCheck
        <3> DEFINE s == Scheduled(rec.status)
        <3>1. s \in Statuses /\ /\ s.accepted = rec.status.accepted
                                /\ s.acceptedJob = rec.status.acceptedJob
                                /\ s.acceptedAt = rec.status.acceptedAt
            BY <1>a, HelpersType, ScheduledEvidence
        <3> HIDE DEF s
        <3>2. /\ Sound(Judged(s), completions) /\ Judged(s) \in Statuses
              /\ Keeps(rec.status, Judged(s))
            BY <1>a, <3>1, JudgedSound, HelpersType DEF Sound, Agrees, Keeps
        <3>3. Reply(Judged(s)) /\ UNCHANGED <<status, jobComplete, completions>>
            BY <2>5 DEF FailCheck, Missed, jobVars, s
        <3> QED BY <3>2, <3>3, ReplySound
    <2>6. CASE PassCheck
        <3>1. PICK c \in jobComplete :
                 c.job = Job /\ Reply(Judged(Recorded(Scheduled(rec.status), c.at)))
            BY <2>6 DEF PassCheck
        <3> DEFINE s == Scheduled(rec.status)  t == Recorded(s, c.at)
        <3>2. c \in completions /\ c.at \in Nat
            BY DEF Inv, TypeOK, Completions
        <3>3. s \in Statuses /\ s.acceptedJob = rec.status.acceptedJob
              /\ s.acceptedAt = rec.status.acceptedAt
            BY <1>a, HelpersType, ScheduledEvidence
        <3>4. s.acceptedJob # None => Witnessed(s.acceptedJob, s.acceptedAt, completions)
            BY <1>a, <3>3 DEF Sound
        <3> HIDE DEF s
        <3>5. /\ t.acceptedJob # None /\ Witnessed(t.acceptedJob, t.acceptedAt, completions)
              /\ t.accepted = Target /\ t.acceptedJob.target = t.accepted
            BY <1>a, <3>1, <3>2, <3>3, <3>4, RecordedSound
        <3>6. t \in Statuses
            BY <1>a, <3>2, <3>3, HelpersType
        <3> HIDE DEF t
        <3>7. /\ Sound(Judged(t), completions) /\ Judged(t) \in Statuses
              /\ Keeps(rec.status, Judged(t))
            BY <1>a, <3>5, <3>6, JudgedSound, HelpersType DEF Keeps
        <3>8. Reply(Judged(t)) /\ UNCHANGED <<status, jobComplete, completions>>
            BY <2>6, <3>1 DEF PassCheck, jobVars, s, t
        <3> QED BY <3>7, <3>8, ReplySound
    <2> QED BY <1>2, <2>1, <2>2, <2>3, <2>4, <2>5, <2>6 DEF Act
<1>3. CASE Commit
    <2>1. /\ status'.accepted \in {status.accepted, rec.out.accepted}
          /\ Sound(status', completions)
        <3>1. CASE ~rec.fresh
            BY <1>3, <3>1 DEF Commit, VersionMatches, Inv
        <3>2. CASE rec.fresh
            <4>1. /\ status' \in Statuses /\ rec.out \in Statuses
                  /\ status'.accepted = rec.out.accepted
                  /\ status'.acceptedJob = rec.out.acceptedJob
                  /\ status'.acceptedAt = rec.out.acceptedAt
                  /\ status'.judged = rec.out.judged /\ status'.ok = rec.out.ok
                BY <1>3, <1>a, <3>2 DEF Commit, VersionMatches, TypeOK, Statuses
            <4> QED BY <4>1, SoundFields DEF Inv
        <3> QED BY <1>a, <3>1, <3>2 DEF TypeOK
    <2>2. rec' = Idle /\ UNCHANGED <<jobComplete, completions>>
        BY <1>3 DEF Commit, jobVars
    <2> QED BY <2>1, <2>2, IdleSound DEF Inv
<1>4. CASE Blocked
    <2>1. Reply(Judged(rec.status)) /\ UNCHANGED <<status, jobComplete, completions>>
        BY <1>4 DEF Blocked, jobVars
    <2> QED BY <2>1, JudgedStep, ReplySound
<1>5. CASE CallFails
    <2>1. Reply(rec.status) /\ UNCHANGED <<status, jobComplete, completions>>
        BY <1>5 DEF CallFails, jobVars
    <2> QED BY <1>a, <2>1, KeepsSelf, ReplySound
<1>6. CASE Crash
    <2>1. rec' = Idle /\ UNCHANGED <<status, jobComplete, completions>>
        BY <1>6 DEF Crash, jobVars
    <2> QED BY <2>1, IdleSound DEF Inv
<1>7. CASE JobFails \/ Rotate
    BY <1>7 DEF JobFails, Rotate, jobVars, Inv
<1>8. CASE JobExpires
    <2>1. jobComplete' \subseteq jobComplete /\ UNCHANGED <<status, rec, completions>>
        BY <1>8 DEF JobExpires
    <2> QED BY <2>1 DEF Inv
<1>9. CASE EditSpec
    <2>1. /\ rec'.status = rec.status /\ rec'.out = rec.out /\ rec'.fresh = FALSE
          /\ UNCHANGED <<status, jobComplete, completions>>
        BY <1>9, <1>a DEF EditSpec, TypeOK, jobVars
    <2> QED BY <2>1 DEF Inv
<1>10. CASE TimePasses
    <2>1. /\ status \in Statuses /\ status' \in Statuses
          /\ status'.accepted = status.accepted /\ status'.acceptedJob = status.acceptedJob
          /\ status'.acceptedAt = status.acceptedAt
          /\ status'.judged = status.judged /\ status'.ok = status.ok
          /\ UNCHANGED <<rec, jobComplete, completions>>
        BY <1>10, <1>a DEF TimePasses, TypeOK, Statuses, jobVars
    <2>2. Sound(status', completions)
        BY <2>1, SoundFields DEF Inv
    <2> QED BY <2>1, <2>2 DEF Inv
<1>11. CASE JobCompletes
    <2>1. /\ completions \subseteq completions' /\ jobComplete' \subseteq completions'
          /\ UNCHANGED <<status, rec>>
        BY <1>11 DEF JobCompletes, Inv
    <2>2. /\ Sound(status, completions') /\ Sound(rec.status, completions')
          /\ Sound(rec.out, completions')
        BY <2>1, SoundGrows DEF Inv
    <2> QED BY <2>1, <2>2 DEF Inv
<1>12. CASE UNCHANGED vars
    BY <1>12 DEF vars, jobVars, Inv
<1> QED BY <1>1, <1>2, <1>3, <1>4, <1>5, <1>6, <1>7, <1>8, <1>9, <1>10, <1>11, <1>12
        DEF Next, Process, Faults, World

\* Inv holds of every reachable state.
THEOREM Soundness == Spec => []Inv
<1>1. Init => Inv
    <2> SUFFICES ASSUME Init PROVE Inv
        OBVIOUS
    <2>1. TypeOK
        BY AcceptanceAssumption, NoEvidenceType DEF Init, TypeOK, Idle
    <2> QED BY <2>1, IdleSound DEF Init, Inv
<1> QED BY <1>1, InvInductive, TypeCorrect, PTL DEF Spec

\* Acceptance=True always rests on a Job that completed, at the time stated,
\* for the release and configuration the condition is about.
THEOREM AcceptanceIsHonest == Spec => []AcceptanceHonest
<1>1. Inv => AcceptanceHonest
    BY DEF Inv, Sound, Agrees, Witnessed, AcceptanceHonest
<1> QED BY <1>1, Soundness, PTL

\* No step takes recorded evidence back, except for the acceptance of the
\* target then judged.
THEOREM EvidenceRemains == Spec => RecordRemains
<1> DEFINE Kept ==
        status.accepted # None =>
          /\ status'.accepted \in {status.accepted, status'.judged}
          /\ status'.judged = status'.accepted => status'.ok
<1>1. Inv /\ Inv' /\ [Next]_vars => [Kept]_vars
    <2> SUFFICES ASSUME Inv, Inv', [Next]_vars PROVE Kept
        OBVIOUS
    <2>1. status'.accepted # None /\ status'.judged = status'.accepted => status'.ok
        BY DEF Inv, Sound, Agrees
    <2>2. CASE status'.accepted = status.accepted
        BY <2>1, <2>2
    <2>3. CASE Commit /\ rec.fresh
        <3>1. /\ status'.accepted = rec.out.accepted /\ status'.judged = rec.out.judged
              /\ status'.ok = rec.out.ok
            BY <2>3 DEF Commit, VersionMatches, Inv, TypeOK, Statuses
        <3>2. Keeps(rec.status, rec.out) /\ rec.status.accepted = status.accepted
            BY <2>3 DEF Inv
        <3> QED BY <3>1, <3>2 DEF Keeps
    <2>4. CASE TimePasses
        BY <2>2, <2>4 DEF TimePasses, Inv, TypeOK, Statuses
    <2>5. CASE UNCHANGED status
        BY <2>2, <2>5
    <2>6. \/ (Commit /\ rec.fresh) \/ TimePasses \/ UNCHANGED status
        BY DEF Next, Process, Faults, World, List, Act, Begin, Finish, StartCheck, AwaitCheck,
               FailCheck, PassCheck, Commit, VersionMatches, Blocked, CallFails, Crash,
               JobFails, JobExpires, EditSpec, Rotate, JobCompletes, vars
    <2> QED BY <2>3, <2>4, <2>5, <2>6
<1>2. Spec => [][Kept]_vars
    BY <1>1, Soundness, PTL DEF Spec
<1> QED BY <1>2 DEF RecordRemains
=============================================================================
