-------------------------- MODULE PublicationProofs --------------------------
(***************************************************************************)
(* Proofs about Publication: the type invariant, that what was once        *)
(* published stays, that promotion branches keep their content, and that   *)
(* the catalog selects only what is published in full or was promoted by   *)
(* hand.                                                                   *)
(*                                                                         *)
(* The tag and the GitHub release are only ever created; a chart push      *)
(* replaces what is there, so that charts stay rests on the concurrency    *)
(* group: no second run of the workflow fills in a chart between a run's   *)
(* check for absence and its push.                                         *)
(*                                                                         *)
(* A run reads, and acts on what it read when main, branches and pull      *)
(* requests may be others.  What it has established by a step              *)
(* (Established) is of things that only grow: main, what is published, and *)
(* what was promoted by hand before it was (Cleared).  So it still holds   *)
(* when the branch is pushed, and of the branch when it is merged, however *)
(* many runs later.                                                        *)
(***************************************************************************)
EXTENDS Publication, TLAPS

\* A run that works has a version and a build, and from its promotion on the
\* name and the commit of a branch.
Working(r) ==
    /\ run[r].pc # "idle" => run[r].version \in Versions /\ run[r].build \in Builds
    /\ run[r].pc \in {"look", "push branch", "list", "create"} =>
          run[r].name \in Names /\ run[r].commit \in Commits
\* main is never empty; an open pull request has a branch.
Grounded ==
    /\ Len(main) > 0
    /\ \A n \in Names : [name |-> n, state |-> "OPEN"] \in pulls => branches[n] # None
TypeInv == TypeOK /\ Grounded /\ \A r \in Runs : Working(r)

-----------------------------------------------------------------------------
\* Writing a whole run.
LEMMA RunSet ==
    ASSUME TypeInv, NEW r \in Runs, NEW s \in RunStates, run' = [run EXCEPT ![r] = s],
           s.pc # "idle" => s.version \in Versions /\ s.build \in Builds,
           s.pc \in {"look", "push branch", "list", "create"} =>
              s.name \in Names /\ s.commit \in Commits
    PROVE  run' \in [Runs -> RunStates] /\ \A q \in Runs : Working(q)'
<1>1. run \in [Runs -> RunStates]
    BY DEF TypeInv, TypeOK
<1>2. run' \in [Runs -> RunStates]
    BY <1>1
<1>3. \A q \in Runs : run'[q] = IF q = r THEN s ELSE run[q]
    BY <1>1
<1>4. ASSUME NEW q \in Runs PROVE Working(q)'
    BY <1>3 DEF TypeInv, Working
<1> QED BY <1>2, <1>4

\* A run that ends, or goes on with what it has read.
LEMMA EndType ==
    ASSUME TypeInv, NEW r \in Runs, End(r)
    PROVE  run' \in [Runs -> RunStates] /\ \A q \in Runs : Working(q)'
<1>1. NoRun \in RunStates /\ NoRun.pc = "idle"
    BY DEF NoRun, RunStates, Pcs
<1> QED BY <1>1, RunSet DEF End

LEMMA GotoType ==
    ASSUME TypeInv, NEW r \in Runs, NEW pc \in Pcs, Goto(r, pc), run[r].pc # "idle",
           pc \in {"look", "push branch", "list", "create"} =>
              run[r].name \in Names /\ run[r].commit \in Commits
    PROVE  run' \in [Runs -> RunStates] /\ \A q \in Runs : Working(q)'
<1> DEFINE s == [run[r] EXCEPT !.pc = pc]
<1>1. run \in [Runs -> RunStates] /\ run[r] \in RunStates /\ Working(r)
    BY DEF TypeInv, TypeOK
<1>2. s \in RunStates /\ s.pc = pc /\ s.version = run[r].version /\ s.build = run[r].build
      /\ s.name = run[r].name /\ s.commit = run[r].commit
    BY <1>1 DEF RunStates
<1>3. run' = [run EXCEPT ![r] = s]
    BY <1>1 DEF Goto
<1>4. s.version \in Versions /\ s.build \in Builds
    BY <1>1, <1>2 DEF Working
<1> HIDE DEF s
<1> QED BY <1>2, <1>3, <1>4, RunSet

\* What a run knows, from its place in the workflow.
LEMMA RunKnows ==
    ASSUME TypeInv, NEW r \in Runs
    PROVE  /\ run \in [Runs -> RunStates] /\ run[r] \in RunStates
           /\ run[r].pc # "idle" => Version(r) \in Versions /\ Build(r) \in Builds
           /\ run[r].pc \in {"look", "push branch", "list", "create"} =>
                 run[r].name \in Names /\ run[r].commit \in Commits
           /\ run[r].needed \subseteq Charts
BY DEF TypeInv, TypeOK, Working, Version, Build, RunStates

\* The tip of main is one of its commits.
LEMMA TipType == TypeInv => Tip \in MainCommits /\ Len(main) \in Nat /\ Len(main) > 0
BY DEF TypeInv, TypeOK, Grounded, Tip

\* A step that writes nothing but the run.
LEMMA RestUnchanged ==
    ASSUME TypeInv, run' \in [Runs -> RunStates], \A q \in Runs : Working(q)',
           UNCHANGED <<evidence, repoVars, artifactVars, boundVars, byHand>>
    PROVE  TypeInv'
BY DEF TypeInv, TypeOK, Grounded, repoVars, artifactVars, boundVars

-----------------------------------------------------------------------------
\* The actions of a run keep the types.
LEMMA DispatchType ==
    ASSUME TypeInv, NEW r \in Runs, NEW v \in Versions, Dispatch(r, v) PROVE TypeInv'
<1> DEFINE s == [NoRun EXCEPT !.pc = "status", !.workflow = TRUE, !.version = v,
                              !.build = evidence[v], !.tag = tags[v]]
<1>1. evidence[v] \in Builds /\ tags[v] \in Sources \cup {None}
    BY DEF TypeInv, TypeOK
<1>2. s \in RunStates /\ s.pc = "status" /\ s.version = v /\ s.build = evidence[v]
    BY <1>1 DEF NoRun, RunStates, Pcs
<1>3. run' = [run EXCEPT ![r] = s]
    BY DEF Dispatch
<1> HIDE DEF s
<1>4. run' \in [Runs -> RunStates] /\ \A q \in Runs : Working(q)'
    BY <1>1, <1>2, <1>3, RunSet
<1>5. UNCHANGED <<evidence, repoVars, artifactVars, boundVars, byHand>>
    BY DEF Dispatch
<1> QED BY <1>4, <1>5, RestUnchanged

LEMMA RequireType ==
    ASSUME TypeInv, NEW r \in Runs, NEW condition \in BOOLEAN, NEW pc \in Pcs,
           Require(r, condition, pc), run[r].pc # "idle",
           pc \in {"look", "push branch", "list", "create"} =>
              run[r].name \in Names /\ run[r].commit \in Commits
    PROVE  run' \in [Runs -> RunStates] /\ \A q \in Runs : Working(q)'
<1>1. Goto(r, pc) \/ End(r)
    BY DEF Require
<1> QED BY <1>1, GotoType, EndType

LEMMA ChartStatusType ==
    ASSUME TypeInv, NEW r \in Runs, ChartStatus(r) PROVE TypeInv'
<1> DEFINE needed == {c \in Charts : charts[Version(r)][c] = None}
           s == [run[r] EXCEPT !.pc = "push", !.needed = needed]
<1>1. run[r] \in RunStates /\ run \in [Runs -> RunStates] /\ run[r].version \in Versions
      /\ run[r].build \in Builds
    BY RunKnows DEF ChartStatus, Version, Build
<1>2. run' = [run EXCEPT ![r] = s] \/ End(r)
    BY <1>1 DEF ChartStatus
<1>3. s \in RunStates /\ s.pc = "push" /\ s.version = run[r].version /\ s.build = run[r].build
    BY <1>1 DEF RunStates, Pcs
<1> HIDE DEF s
<1>4. run' \in [Runs -> RunStates] /\ \A q \in Runs : Working(q)'
    BY <1>1, <1>2, <1>3, RunSet, EndType
<1>5. UNCHANGED <<evidence, repoVars, artifactVars, boundVars, byHand>>
    BY DEF ChartStatus
<1> QED BY <1>4, <1>5, RestUnchanged

LEMMA PushChartType ==
    ASSUME TypeInv, NEW r \in Runs, PushChart(r) PROVE TypeInv'
<1>1. PICK c \in run[r].needed :
         /\ charts' = [charts EXCEPT ![Version(r)][c] = Bytes[Build(r)][c]]
         /\ run' = [run EXCEPT ![r].needed = @ \ {c}]
    BY DEF PushChart
<1>2. /\ run[r] \in RunStates /\ run \in [Runs -> RunStates] /\ c \in Charts
      /\ run[r].version \in Versions /\ run[r].build \in Builds /\ run[r].pc = "push"
      /\ run[r].needed \subseteq Charts
    BY RunKnows DEF PushChart, Version, Build
<1> DEFINE s == [run[r] EXCEPT !.needed = @ \ {c}]
<1>3. s \in RunStates /\ s.pc = "push" /\ s.version = run[r].version /\ s.build = run[r].build
    BY <1>2 DEF RunStates
<1>4. run' = [run EXCEPT ![r] = s]
    BY <1>1, <1>2
<1> HIDE DEF s
<1>5. run' \in [Runs -> RunStates] /\ \A q \in Runs : Working(q)'
    BY <1>2, <1>3, <1>4, RunSet
<1>6. charts' \in [Versions -> [Charts -> Packages \cup {None}]]
    <2>1. charts \in [Versions -> [Charts -> Packages \cup {None}]]
        BY DEF TypeInv, TypeOK
    <2>2. Bytes[Build(r)][c] \in Packages
        BY <1>2 DEF Packages, Build
    <2> QED BY <1>1, <2>1, <2>2
<1>7. UNCHANGED <<evidence, main, branches, pulls, tags, releases, complete,
               edits, faults, byHand>>
    BY DEF PushChart, repoVars, boundVars
<1> QED BY <1>5, <1>6, <1>7 DEF TypeInv, TypeOK, Grounded

LEMMA PullChartsType ==
    ASSUME TypeInv, NEW r \in Runs, PullCharts(r) PROVE TypeInv'
<1>1. run' \in [Runs -> RunStates] /\ \A q \in Runs : Working(q)'
    BY RequireType DEF PullCharts, Pcs
<1>2. UNCHANGED <<evidence, repoVars, artifactVars, boundVars, byHand>>
    BY DEF PullCharts
<1> QED BY <1>1, <1>2, RestUnchanged

LEMMA PushTagType ==
    ASSUME TypeInv, NEW r \in Runs, PushTag(r) PROVE TypeInv'
<1>1. run' \in [Runs -> RunStates] /\ \A q \in Runs : Working(q)'
    BY RequireType DEF PushTag, Pcs
<1>2. tags' \in [Versions -> Sources \cup {None}]
    BY RunKnows DEF PushTag, Sources, TypeInv, TypeOK
<1>3. UNCHANGED <<evidence, main, branches, pulls, charts, releases, complete,
               edits, faults, byHand>>
    BY DEF PushTag, repoVars, boundVars
<1> QED BY <1>1, <1>2, <1>3 DEF TypeInv, TypeOK, Grounded

LEMMA CreateReleaseType ==
    ASSUME TypeInv, NEW r \in Runs, CreateRelease(r) PROVE TypeInv'
<1> DEFINE pc == IF releases[Version(r)] = None THEN "upload" ELSE "download"
<1>1. run' \in [Runs -> RunStates] /\ \A q \in Runs : Working(q)'
    <2>1. Goto(r, pc) /\ run[r].pc = "release"
        BY DEF CreateRelease
    <2>2. pc \in Pcs /\ pc \notin {"look", "push branch", "list", "create"}
        BY DEF Pcs
    <2> HIDE DEF pc
    <2> QED BY <2>1, <2>2, GotoType
<1>2. releases' \in [Versions -> Builds \cup {None}]
    BY RunKnows DEF CreateRelease, TypeInv, TypeOK
<1>3. UNCHANGED <<evidence, main, branches, pulls, charts, tags, complete,
               edits, faults, byHand>>
    BY DEF CreateRelease, repoVars, boundVars
<1> QED BY <1>1, <1>2, <1>3 DEF TypeInv, TypeOK, Grounded

LEMMA UploadAssetsType ==
    ASSUME TypeInv, NEW r \in Runs, UploadAssets(r) PROVE TypeInv'
<1>1. run' \in [Runs -> RunStates] /\ \A q \in Runs : Working(q)'
    BY GotoType DEF UploadAssets, Pcs
<1>2. complete' \subseteq Versions
    BY RunKnows DEF UploadAssets, TypeInv, TypeOK
<1>3. UNCHANGED <<evidence, main, branches, pulls, charts, tags, releases, edits, faults, byHand>>
    BY DEF UploadAssets, repoVars, boundVars
<1> QED BY <1>1, <1>2, <1>3 DEF TypeInv, TypeOK, Grounded

LEMMA VerifyReleaseType ==
    ASSUME TypeInv, NEW r \in Runs, VerifyRelease(r) PROVE TypeInv'
<1>1. run' \in [Runs -> RunStates] /\ \A q \in Runs : Working(q)'
    BY RequireType DEF VerifyRelease, Released, Pcs
<1>2. UNCHANGED <<evidence, repoVars, artifactVars, boundVars, byHand>>
    BY DEF VerifyRelease
<1> QED BY <1>1, <1>2, RestUnchanged

LEMMA PromoteByHandType ==
    ASSUME TypeInv, NEW r \in Runs, NEW v \in Versions, NEW b \in Builds, PromoteByHand(r, v, b)
    PROVE  TypeInv'
<1> DEFINE s == [NoRun EXCEPT !.pc = "fetch", !.version = v, !.build = b]
<1>1. s \in RunStates /\ s.pc = "fetch" /\ s.version = v /\ s.build = b
    BY DEF NoRun, RunStates, Pcs
<1>2. run' = [run EXCEPT ![r] = s]
    BY DEF PromoteByHand
<1> HIDE DEF s
<1>3. run' \in [Runs -> RunStates] /\ \A q \in Runs : Working(q)'
    BY <1>1, <1>2, RunSet
<1>4. byHand' \subseteq Versions \X Builds
    BY DEF PromoteByHand, TypeInv, TypeOK
<1>5. UNCHANGED <<evidence, repoVars, artifactVars, boundVars>>
    BY DEF PromoteByHand
<1> QED BY <1>3, <1>4, <1>5
        DEF TypeInv, TypeOK, Grounded, repoVars, artifactVars, boundVars

LEMMA FetchMainType ==
    ASSUME TypeInv, NEW r \in Runs, FetchMain(r) PROVE TypeInv'
<1> DEFINE v == Version(r)
           promoted == \E e \in Tip.catalog : e.version = v
           select == CatalogPhase(Tip, v)
           commit == [base |-> Len(main),
                      build |-> IF select THEN Tip.manifest[v] ELSE Build(r),
                      at |-> IF select THEN Tip.since[v] ELSE 0]
           name == <<IF select THEN "catalog" ELSE "manifest", v>>
           pc == IF promoted THEN "list" ELSE "look"
           s == [run[r] EXCEPT !.pc = pc, !.head = Len(main), !.promoted = promoted,
                               !.name = name, !.commit = commit]
<1>1. /\ run[r] \in RunStates /\ run \in [Runs -> RunStates]
      /\ v \in Versions /\ Build(r) \in Builds
    BY RunKnows DEF FetchMain
<1>2. Tip \in MainCommits /\ Len(main) \in Nat
    BY TipType
<1>3. commit \in Commits
    <2>1. (IF select THEN Tip.manifest[v] ELSE Build(r)) \in Builds
        BY <1>1, <1>2 DEF CatalogPhase, MainCommits
    <2>2. (IF select THEN Tip.since[v] ELSE 0) \in Nat
        BY <1>1, <1>2 DEF MainCommits
    <2> QED BY <1>2, <2>1, <2>2 DEF Commits
<1>4. name \in Names
    BY <1>1 DEF Names
<1>5. pc \in Pcs /\ pc # "idle" /\ promoted \in BOOLEAN
    BY DEF Pcs
<1>6. run' = [run EXCEPT ![r] = s] \/ End(r)
    BY <1>1 DEF FetchMain
<1> HIDE DEF commit, name, pc, promoted
<1>7. s \in RunStates /\ s.version = v /\ s.build = Build(r) /\ s.name = name /\ s.commit = commit
    BY <1>1, <1>2, <1>3, <1>4, <1>5 DEF RunStates, Version, Build
<1> HIDE DEF s, v
<1>8. run' \in [Runs -> RunStates] /\ \A q \in Runs : Working(q)'
    BY <1>1, <1>3, <1>4, <1>6, <1>7, RunSet, EndType
<1>9. UNCHANGED <<evidence, repoVars, artifactVars, boundVars, byHand>>
    BY DEF FetchMain
<1> QED BY <1>8, <1>9, RestUnchanged

LEMMA LookForBranchType ==
    ASSUME TypeInv, NEW r \in Runs, LookForBranch(r) PROVE TypeInv'
<1> DEFINE found == branches[run[r].name]
           s == [run[r] EXCEPT !.pc = "list", !.commit = found]
<1>1. /\ run[r] \in RunStates /\ run \in [Runs -> RunStates] /\ run[r].pc = "look"
      /\ run[r].version \in Versions /\ run[r].build \in Builds
      /\ run[r].name \in Names /\ run[r].commit \in Commits
    BY RunKnows DEF LookForBranch, Version, Build
<1>2. found \in Commits \cup {None}
    BY <1>1 DEF TypeInv, TypeOK
<1>3. \/ Goto(r, "push branch") \/ End(r)
      \/ found # None /\ run' = [run EXCEPT ![r] = s]
    BY <1>1 DEF LookForBranch
<1>4. ASSUME found # None
      PROVE  s \in RunStates /\ s.version = run[r].version /\ s.build = run[r].build
             /\ s.name \in Names /\ s.commit \in Commits
    BY <1>1, <1>2, <1>4 DEF RunStates, Pcs
<1> HIDE DEF s, found
<1>5. run' \in [Runs -> RunStates] /\ \A q \in Runs : Working(q)'
    <2>1. CASE Goto(r, "push branch")
        BY <1>1, <2>1, GotoType DEF Pcs
    <2>2. CASE End(r)
        BY <2>2, EndType
    <2>3. CASE found # None /\ run' = [run EXCEPT ![r] = s]
        BY <1>1, <1>4, <2>3, RunSet
    <2> QED BY <1>3, <2>1, <2>2, <2>3
<1>6. UNCHANGED <<evidence, repoVars, artifactVars, boundVars, byHand>>
    BY DEF LookForBranch
<1> QED BY <1>5, <1>6, RestUnchanged

LEMMA PushBranchType ==
    ASSUME TypeInv, NEW r \in Runs, PushBranch(r) PROVE TypeInv'
<1>1. run[r].pc = "push branch" /\ run[r].name \in Names /\ run[r].commit \in Commits
    BY RunKnows DEF PushBranch
<1>2. run' \in [Runs -> RunStates] /\ \A q \in Runs : Working(q)'
    <2>1. Require(r, LeaseHolds(run[r].name), "list") /\ LeaseHolds(run[r].name) \in BOOLEAN
        BY DEF PushBranch, LeaseHolds
    <2> QED BY <1>1, <2>1, RequireType DEF Pcs
<1>3. branches' \in [Names -> Commits \cup {None}]
      /\ \A n \in Names : branches[n] # None => branches'[n] # None
    BY <1>1, PublicationAssumption DEF PushBranch, TypeInv, TypeOK
<1>4. UNCHANGED <<evidence, main, pulls, charts, tags, releases, complete,
               edits, faults, byHand>>
    BY DEF PushBranch, artifactVars, boundVars
<1> QED BY <1>2, <1>3, <1>4 DEF TypeInv, TypeOK, Grounded

LEMMA ListPullsType ==
    ASSUME TypeInv, NEW r \in Runs, ListPulls(r) PROVE TypeInv'
<1> DEFINE condition == ~run[r].promoted /\ \A p \in pulls : p.name # run[r].name
<1>1. /\ run[r].pc = "list" /\ run[r].name \in Names /\ run[r].commit \in Commits
      /\ run[r].promoted \in BOOLEAN
    BY RunKnows DEF ListPulls, RunStates
<1>2. run' \in [Runs -> RunStates] /\ \A q \in Runs : Working(q)'
    <2>1. Require(r, condition, "create") /\ condition \in BOOLEAN
        BY <1>1 DEF ListPulls
    <2> HIDE DEF condition
    <2> QED BY <1>1, <2>1, RequireType DEF Pcs
<1>3. UNCHANGED <<evidence, repoVars, artifactVars, boundVars, byHand>>
    BY DEF ListPulls
<1> QED BY <1>2, <1>3, RestUnchanged

LEMMA CreatePullType ==
    ASSUME TypeInv, NEW r \in Runs, CreatePull(r) PROVE TypeInv'
<1>1. run[r].name \in Names
    BY RunKnows DEF CreatePull
<1>2. run' \in [Runs -> RunStates] /\ \A q \in Runs : Working(q)'
    BY EndType DEF CreatePull
<1>3. /\ pulls' \subseteq Pulls
      /\ \A n \in Names : [name |-> n, state |-> "OPEN"] \in pulls' => branches[n] # None
    BY <1>1 DEF CreatePull, CanOpen, TypeInv, TypeOK, Grounded, Pulls
<1>4. UNCHANGED <<evidence, main, branches, charts, tags, releases, complete,
               edits, faults, byHand>>
    BY DEF CreatePull, artifactVars, boundVars
<1> QED BY <1>2, <1>3, <1>4 DEF TypeInv, TypeOK, Grounded

LEMMA RunEndsType ==
    ASSUME TypeInv, NEW r \in Runs, RunEnds(r) PROVE TypeInv'
<1>1. run' \in [Runs -> RunStates] /\ \A q \in Runs : Working(q)'
    BY EndType DEF RunEnds
<1>2. faults' \in Nat
    BY DEF RunEnds, TypeInv, TypeOK
<1>3. UNCHANGED <<evidence, main, branches, pulls, charts, tags, releases, complete, edits,
               byHand>>
    BY DEF RunEnds, artifactVars, repoVars
<1> QED BY <1>1, <1>2, <1>3 DEF TypeInv, TypeOK, Grounded

-----------------------------------------------------------------------------
\* GitHub and the maintainers keep the types.
LEMMA RetainType ==
    ASSUME TypeInv, NEW v \in Versions, NEW b \in Builds
    PROVE  Retain(v, b) \in Seq(MainCommits) /\ Len(Retain(v, b)) > 0
<1>1. Tip \in MainCommits /\ main \in Seq(MainCommits) /\ Len(main) \in Nat
    BY TipType DEF TypeInv, TypeOK
<1>2. [Tip EXCEPT !.manifest[v] = b, !.since[v] = Len(main) + 1] \in MainCommits
    <2> DEFINE manifest == [Tip.manifest EXCEPT ![v] = b]
               since == [Tip.since EXCEPT ![v] = Len(main) + 1]
    <2>1. manifest \in [Versions -> Builds \cup {None}]
        BY <1>1 DEF MainCommits
    <2>2. since \in [Versions -> Nat]
        BY <1>1 DEF MainCommits
    <2> HIDE DEF manifest, since
    <2>3. [Tip EXCEPT !.manifest = manifest, !.since = since] \in MainCommits
        BY <1>1, <2>1, <2>2 DEF MainCommits
    <2>4. [Tip EXCEPT !.manifest[v] = b, !.since[v] = Len(main) + 1]
          = [Tip EXCEPT !.manifest = manifest, !.since = since]
        BY <1>1 DEF MainCommits, manifest, since
    <2> QED BY <2>3, <2>4
<1> QED BY <1>1, <1>2 DEF Retain

LEMMA ClosingType ==
    ASSUME TypeInv, NEW name \in Names, NEW state \in {"MERGED", "CLOSED"}, Closing(name, state)
    PROVE  /\ pulls' \subseteq Pulls
           /\ \A n \in Names : [name |-> n, state |-> "OPEN"] \in pulls' =>
                 n # name /\ branches[n] # None
<1>1. [name |-> name, state |-> state] \in Pulls
    BY DEF Pulls
<1>2. [name |-> name, state |-> state] # [name |-> name, state |-> "OPEN"]
    OBVIOUS
<1>3. ASSUME NEW n \in Names, [name |-> n, state |-> "OPEN"] \in pulls'
      PROVE  n # name /\ branches[n] # None
    <2>1. [name |-> n, state |-> "OPEN"] # [name |-> name, state |-> state]
        OBVIOUS
    <2>2. [name |-> n, state |-> "OPEN"] \in pulls
          /\ [name |-> n, state |-> "OPEN"] # [name |-> name, state |-> "OPEN"]
        BY <1>3, <2>1 DEF Closing
    <2> QED BY <2>2 DEF TypeInv, Grounded
<1>4. pulls' \subseteq Pulls
    BY <1>1 DEF Closing, TypeInv, TypeOK
<1> QED BY <1>3, <1>4

LEMMA RunsUntouched ==
    ASSUME TypeInv, UNCHANGED run
    PROVE  run' \in [Runs -> RunStates] /\ \A q \in Runs : Working(q)'
BY DEF TypeInv, TypeOK, Working

LEMMA MergeType ==
    ASSUME TypeInv, NEW v \in Versions, NEW phase \in {"manifest", "catalog"}, Merge(v, phase)
    PROVE  TypeInv'
<1> DEFINE name == <<phase, v>>
           commit == branches[name]
           retained == Append(main, [Tip EXCEPT !.catalog = @ \cup {Entry(v, commit)}])
<1>1. name \in Names
    BY DEF Names
<1>2. [name |-> name, state |-> "OPEN"] \in pulls /\ Closing(name, "MERGED")
      /\ main' = (IF phase = "manifest" THEN Retain(v, commit.build) ELSE retained)
      /\ branches' \in {branches, [branches EXCEPT ![name] = None]}
    BY DEF Merge
<1>3. commit \in Commits
    BY <1>1, <1>2 DEF TypeInv, TypeOK, Grounded
<1>4. main' \in Seq(MainCommits) /\ Len(main') > 0
    <2>1. Retain(v, commit.build) \in Seq(MainCommits) /\ Len(Retain(v, commit.build)) > 0
        BY <1>3, RetainType DEF Commits
    <2>2. Entry(v, commit) \in Entries
        BY <1>3 DEF Commits, Entries, Entry
    <2>3. Tip \in MainCommits /\ main \in Seq(MainCommits) /\ Len(main) \in Nat
        BY TipType DEF TypeInv, TypeOK
    <2>4. [Tip EXCEPT !.catalog = @ \cup {Entry(v, commit)}] \in MainCommits
        BY <2>2, <2>3 DEF MainCommits
    <2>5. retained \in Seq(MainCommits) /\ Len(retained) > 0
        <3> DEFINE m == [Tip EXCEPT !.catalog = @ \cup {Entry(v, commit)}]
        <3> HIDE DEF m
        <3>1. Append(main, m) \in Seq(MainCommits) /\ Len(Append(main, m)) > 0
            BY <2>3, <2>4 DEF m
        <3> QED BY <3>1 DEF m
    <2> QED BY <1>2, <2>1, <2>5
<1>5. /\ pulls' \subseteq Pulls
      /\ \A n \in Names : [name |-> n, state |-> "OPEN"] \in pulls' =>
            n # name /\ branches[n] # None
    BY <1>1, <1>2, ClosingType
<1>6. branches' \in [Names -> Commits \cup {None}]
      /\ \A n \in Names : n # name => branches'[n] = branches[n]
    BY <1>1, <1>2 DEF TypeInv, TypeOK
<1> HIDE DEF name, commit, retained
<1>7. UNCHANGED <<evidence, charts, tags, releases, complete, run, edits, faults, byHand>>
    BY DEF Merge, artifactVars, boundVars
<1>8. run' \in [Runs -> RunStates] /\ \A q \in Runs : Working(q)'
    BY <1>7, RunsUntouched
<1> QED BY <1>4, <1>5, <1>6, <1>7, <1>8 DEF TypeInv, TypeOK, Grounded

LEMMA UpdateBranchType ==
    ASSUME TypeInv, NEW v \in Versions, UpdateBranch(v) PROVE TypeInv'
<1> DEFINE name == <<"catalog", v>>
<1>1. name \in Names
    BY DEF Names
<1>2. branches[name] \in Commits
    BY <1>1 DEF UpdateBranch, TypeInv, TypeOK, Grounded
<1>3. [branches[name] EXCEPT !.base = Len(main)] \in Commits
    BY <1>2, TipType DEF Commits
<1>4. branches' = [branches EXCEPT ![name] = [branches[name] EXCEPT !.base = Len(main)]]
    BY DEF UpdateBranch
<1> HIDE DEF name
<1>5. branches' \in [Names -> Commits \cup {None}]
      /\ \A n \in Names : branches[n] # None => branches'[n] # None
    BY <1>1, <1>3, <1>4, PublicationAssumption DEF TypeInv, TypeOK
<1>6. UNCHANGED <<evidence, main, pulls, charts, tags, releases, complete, run,
               edits, faults, byHand>>
    BY DEF UpdateBranch, artifactVars, boundVars
<1>7. run' \in [Runs -> RunStates] /\ \A q \in Runs : Working(q)'
    BY <1>6, RunsUntouched
<1> QED BY <1>5, <1>6, <1>7 DEF TypeInv, TypeOK, Grounded

LEMMA MaintainType == ASSUME TypeInv, Maintain PROVE TypeInv'
<1>1. UNCHANGED <<charts, tags, releases, complete, run, faults, byHand>> /\ edits' \in Nat
    BY DEF Maintain, artifactVars, TypeInv, TypeOK
<1>2. run' \in [Runs -> RunStates] /\ \A q \in Runs : Working(q)'
    BY <1>1, RunsUntouched
<1>3. ASSUME NEW name \in Names, Closing(name, "CLOSED"), UNCHANGED <<evidence, main, branches>>
      PROVE  TypeInv'
    BY <1>1, <1>2, <1>3, ClosingType DEF TypeInv, TypeOK, Grounded
<1>4. ASSUME NEW name \in Names, CanOpen(name), UNCHANGED <<evidence, main, branches>>,
             pulls' = pulls \cup {[name |-> name, state |-> "OPEN"]}
      PROVE  TypeInv'
    <2>1. /\ pulls' \subseteq Pulls
          /\ \A n \in Names : [name |-> n, state |-> "OPEN"] \in pulls' => branches[n] # None
        BY <1>4 DEF CanOpen, Pulls, TypeInv, TypeOK, Grounded
    <2> QED BY <1>1, <1>2, <1>4, <2>1 DEF TypeInv, TypeOK, Grounded
<1>5. ASSUME NEW v \in Versions, NEW b \in Builds, evidence' = [evidence EXCEPT ![v] = b],
             UNCHANGED repoVars
      PROVE  TypeInv'
    BY <1>1, <1>2, <1>5 DEF repoVars, TypeInv, TypeOK, Grounded
<1>6. ASSUME NEW v \in Versions, NEW b \in Builds, main' = Retain(v, b),
             UNCHANGED <<evidence, branches, pulls>>
      PROVE  TypeInv'
    BY <1>1, <1>2, <1>6, RetainType DEF TypeInv, TypeOK, Grounded
<1>7. ASSUME NEW name \in Names, [name |-> name, state |-> "OPEN"] \notin pulls,
             branches' = [branches EXCEPT ![name] = None], UNCHANGED <<evidence, main, pulls>>
      PROVE  TypeInv'
    <2>1. branches' \in [Names -> Commits \cup {None}]
          /\ \A n \in Names : n # name => branches'[n] = branches[n]
        BY <1>7 DEF TypeInv, TypeOK
    <2> QED BY <1>1, <1>2, <1>7, <2>1 DEF TypeInv, TypeOK, Grounded
<1>8. ASSUME main' = Append(main, Tip), UNCHANGED <<evidence, branches, pulls>>
      PROVE  TypeInv'
    <2>1. Tip \in MainCommits /\ main \in Seq(MainCommits)
        BY TipType DEF TypeInv, TypeOK
    <2>2. main' \in Seq(MainCommits) /\ Len(main') > 0
        BY <1>8, <2>1
    <2> QED BY <1>1, <1>2, <1>8, <2>2 DEF TypeInv, TypeOK, Grounded
<1> QED BY <1>3, <1>4, <1>5, <1>6, <1>7, <1>8 DEF Maintain

-----------------------------------------------------------------------------
LEMMA InitType == Init => TypeInv
<1> SUFFICES ASSUME Init PROVE TypeInv
    OBVIOUS
<1>1. NoRun \in RunStates /\ NoRun.pc = "idle"
    BY DEF NoRun, RunStates, Pcs
<1>2. Bare \in MainCommits
    BY DEF Bare, MainCommits
<1>3. main \in Seq(MainCommits) /\ Len(main) > 0
    BY <1>2 DEF Init
<1>4. run \in [Runs -> RunStates] /\ \A r \in Runs : Working(r)
    BY <1>1 DEF Init, Working
<1>5. TypeOK
    BY <1>3, <1>4, PublicationAssumption DEF Init, TypeOK
<1> QED BY <1>3, <1>4, <1>5 DEF Init, TypeInv, Grounded

LEMMA StepType == ASSUME TypeInv, NEW r \in Runs, Step(r) PROVE TypeInv'
BY ChartStatusType, PushChartType, PullChartsType, PushTagType, CreateReleaseType,
   UploadAssetsType, VerifyReleaseType, FetchMainType, LookForBranchType, PushBranchType,
   ListPullsType, CreatePullType DEF Step

LEMMA NextType == TypeInv /\ [Next]_vars => TypeInv'
<1> SUFFICES ASSUME TypeInv, [Next]_vars PROVE TypeInv'
    OBVIOUS
<1>1. CASE Next
    BY <1>1, StepType, RunEndsType, DispatchType, PromoteByHandType, MergeType,
       UpdateBranchType, MaintainType DEF Next
<1>2. CASE UNCHANGED vars
    BY <1>2, RunsUntouched, RestUnchanged DEF vars
<1> QED BY <1>1, <1>2

\* The program's types hold in every reachable state; besides, a run that
\* promotes has the branch and commit it needs, and an open pull request a branch.
THEOREM TypeCorrect == Spec => []TypeOK
<1>1. TypeInv => TypeOK
    BY DEF TypeInv
<1> QED BY <1>1, InitType, NextType, PTL DEF Spec

-----------------------------------------------------------------------------
(* What is published stays.  The invariant: one run of the workflow at a   *)
(* time, and what the run that pushes charts has yet to push is absent.    *)
Serial == \A r, q \in Runs : run[r].workflow /\ run[q].workflow => r = q
Pushing(r) ==
    /\ run[r].pc \in {"status", "push"} => run[r].workflow
    /\ run[r].pc = "push" => \A c \in run[r].needed : charts[run[r].version][c] = None
Inv == TypeInv /\ Serial /\ \A r \in Runs : Pushing(r)

\* A run that is written keeps the invariant if it still is the only one of the
\* workflow and does not come to push.
LEMMA RunMoves ==
    ASSUME Inv, NEW r \in Runs, NEW s, run' = [run EXCEPT ![r] = s], charts' = charts,
           s.workflow = TRUE => \A q \in Runs : q # r => ~run[q].workflow,
           s.pc \notin {"status", "push"}
    PROVE  Serial' /\ \A q \in Runs : Pushing(q)'
<1>1. \A q \in Runs : run'[q] = IF q = r THEN s ELSE run[q]
    BY DEF Inv, TypeInv, TypeOK
<1>2. \A q \in Runs : q # r /\ s.workflow => ~run[q].workflow
    OBVIOUS
<1>3. Serial'
    BY <1>1, <1>2 DEF Inv, Serial
<1> QED BY <1>1, <1>3 DEF Inv, Pushing

LEMMA EndInv ==
    ASSUME Inv, NEW r \in Runs, End(r), charts' = charts
    PROVE  Serial' /\ \A q \in Runs : Pushing(q)'
<1>1. NoRun.workflow = FALSE /\ NoRun.pc = "idle"
    BY DEF NoRun
<1> QED BY <1>1, RunMoves DEF End

LEMMA GotoInv ==
    ASSUME Inv, NEW r \in Runs, NEW pc, pc \notin {"status", "push"}, Goto(r, pc), charts' = charts
    PROVE  Serial' /\ \A q \in Runs : Pushing(q)'
<1> DEFINE s == [run[r] EXCEPT !.pc = pc]
<1>1. run \in [Runs -> RunStates] /\ run[r] \in RunStates
    BY DEF Inv, TypeInv, TypeOK
<1>2. run' = [run EXCEPT ![r] = s] /\ s.pc = pc /\ s.workflow = run[r].workflow
    BY <1>1 DEF Goto, RunStates
<1> HIDE DEF s
<1> QED BY <1>2, RunMoves DEF Inv, Serial

LEMMA RequireInv ==
    ASSUME Inv, NEW r \in Runs, NEW condition, NEW pc, pc \notin {"status", "push"},
           Require(r, condition, pc), charts' = charts
    PROVE  Serial' /\ \A q \in Runs : Pushing(q)'
<1>1. Goto(r, pc) \/ End(r)
    BY DEF Require
<1> QED BY <1>1, GotoInv, EndInv

\* The concurrency group admits no second run.
LEMMA DispatchInv ==
    ASSUME Inv, NEW r \in Runs, NEW v \in Versions, Dispatch(r, v)
    PROVE  Serial' /\ \A q \in Runs : Pushing(q)'
<1> DEFINE s == [NoRun EXCEPT !.pc = "status", !.workflow = TRUE, !.version = v,
                              !.build = evidence[v], !.tag = tags[v]]
<1>1. s.pc = "status" /\ s.workflow = TRUE
    BY DEF NoRun
<1>2. run' = [run EXCEPT ![r] = s] /\ charts' = charts /\ run \in [Runs -> RunStates]
      /\ \A q \in Runs : ~run[q].workflow
    BY DEF Dispatch, artifactVars, MayDispatch, Inv, TypeInv, TypeOK
<1> HIDE DEF s
<1>3. \A q \in Runs : run'[q] = IF q = r THEN s ELSE run[q]
    BY <1>2
<1> QED BY <1>1, <1>2, <1>3 DEF Inv, Serial, Pushing

\* What chart_publication_needed finds absent is absent.
LEMMA ChartStatusInv ==
    ASSUME Inv, NEW r \in Runs, ChartStatus(r)
    PROVE  Serial' /\ \A q \in Runs : Pushing(q)'
<1> DEFINE needed == {c \in Charts : charts[Version(r)][c] = None}
           s == [run[r] EXCEPT !.pc = "push", !.needed = needed]
<1>1. /\ run \in [Runs -> RunStates] /\ run[r] \in RunStates /\ charts' = charts
      /\ run[r].pc = "status" /\ run[r].workflow
    BY DEF ChartStatus, artifactVars, Inv, Pushing, TypeInv, TypeOK
<1>2. run' = [run EXCEPT ![r] = s] \/ End(r)
    BY <1>1 DEF ChartStatus
<1>3. s.pc = "push" /\ s.workflow = run[r].workflow /\ s.needed = needed
      /\ s.version = run[r].version
    BY <1>1 DEF RunStates
<1>4. \A c \in s.needed : charts[s.version][c] = None
    BY <1>3 DEF Version
<1> HIDE DEF s
<1>5. CASE run' = [run EXCEPT ![r] = s]
    <2>1. \A q \in Runs : run'[q] = IF q = r THEN s ELSE run[q]
        BY <1>1, <1>5
    <2>2. Serial'
        BY <1>1, <1>3, <2>1 DEF Inv, Serial
    <2>3. ASSUME NEW q \in Runs, q # r PROVE Pushing(q)'
        BY <1>1, <2>1, <2>3 DEF Inv, Pushing
    <2>4. Pushing(r)'
        BY <1>1, <1>3, <1>4, <2>1 DEF Pushing
    <2> QED BY <2>2, <2>3, <2>4
<1>6. CASE End(r)
    BY <1>1, <1>6, EndInv
<1> QED BY <1>2, <1>5, <1>6

\* No other run pushes, and this one has no more to do with what it pushed.
LEMMA PushChartInv ==
    ASSUME Inv, NEW r \in Runs, PushChart(r)
    PROVE  Serial' /\ \A q \in Runs : Pushing(q)'
<1>1. PICK c \in run[r].needed :
         /\ charts' = [charts EXCEPT ![Version(r)][c] = Bytes[Build(r)][c]]
         /\ run' = [run EXCEPT ![r].needed = @ \ {c}]
    BY DEF PushChart
<1> DEFINE s == [run[r] EXCEPT !.needed = @ \ {c}]
<1>2. /\ run \in [Runs -> RunStates] /\ run[r] \in RunStates /\ run[r].pc = "push"
      /\ run[r].workflow /\ run[r].version \in Versions
      /\ charts \in [Versions -> [Charts -> Packages \cup {None}]]
      /\ run[r].needed \subseteq Charts
    BY RunKnows DEF PushChart, Inv, Pushing, TypeInv, TypeOK, Version
<1>3. s.pc = "push" /\ s.workflow /\ s.version = run[r].version
      /\ s.needed = run[r].needed \ {c}
    BY <1>2 DEF RunStates
<1>4. run' = [run EXCEPT ![r] = s]
    BY <1>1, <1>2
<1>5. \A d \in s.needed : charts'[s.version][d] = charts[s.version][d]
    BY <1>1, <1>2, <1>3 DEF Version
<1>6. \A d \in s.needed : charts[s.version][d] = None
    BY <1>2, <1>3 DEF Inv, Pushing
<1> HIDE DEF s
<1>7. \A q \in Runs : run'[q] = IF q = r THEN s ELSE run[q]
    BY <1>2, <1>4
<1>8. Serial'
    BY <1>2, <1>3, <1>7 DEF Inv, Serial
<1>9. \A q \in Runs : q # r => run[q].pc \notin {"status", "push"}
    BY <1>2 DEF Inv, Serial, Pushing
<1>10. ASSUME NEW q \in Runs PROVE Pushing(q)'
    BY <1>3, <1>5, <1>6, <1>7, <1>9 DEF Pushing
<1> QED BY <1>8, <1>10

\* A run by hand, or one that has fetched main or found a branch, does not push charts.
LEMMA PromoteByHandInv ==
    ASSUME Inv, NEW r \in Runs, NEW v \in Versions, NEW b \in Builds, PromoteByHand(r, v, b)
    PROVE  Serial' /\ \A q \in Runs : Pushing(q)'
<1> DEFINE s == [NoRun EXCEPT !.pc = "fetch", !.version = v, !.build = b]
<1>1. s.pc = "fetch" /\ s.workflow = FALSE
    BY DEF NoRun
<1>2. run' = [run EXCEPT ![r] = s] /\ charts' = charts
    BY DEF PromoteByHand, artifactVars
<1> HIDE DEF s
<1> QED BY <1>1, <1>2, RunMoves

LEMMA FetchMainInv ==
    ASSUME Inv, NEW r \in Runs, FetchMain(r)
    PROVE  Serial' /\ \A q \in Runs : Pushing(q)'
<1> DEFINE v == Version(r)
           promoted == \E e \in Tip.catalog : e.version = v
           select == CatalogPhase(Tip, v)
           commit == [base |-> Len(main),
                      build |-> IF select THEN Tip.manifest[v] ELSE Build(r),
                      at |-> IF select THEN Tip.since[v] ELSE 0]
           name == <<IF select THEN "catalog" ELSE "manifest", v>>
           pc == IF promoted THEN "list" ELSE "look"
           s == [run[r] EXCEPT !.pc = pc, !.head = Len(main), !.promoted = promoted,
                               !.name = name, !.commit = commit]
<1>1. run \in [Runs -> RunStates] /\ run[r] \in RunStates /\ charts' = charts
    BY DEF FetchMain, artifactVars, Inv, TypeInv, TypeOK
<1>2. run' = [run EXCEPT ![r] = s] \/ End(r)
    BY <1>1 DEF FetchMain
<1>3. pc \notin {"status", "push"}
    OBVIOUS
<1> HIDE DEF commit, name, pc, promoted
<1>4. s.pc = pc /\ s.workflow = run[r].workflow
    BY <1>1 DEF RunStates
<1> HIDE DEF s
<1>5. CASE run' = [run EXCEPT ![r] = s]
    BY <1>1, <1>3, <1>4, <1>5, RunMoves DEF Inv, Serial
<1> QED BY <1>1, <1>2, <1>5, EndInv

LEMMA LookForBranchInv ==
    ASSUME Inv, NEW r \in Runs, LookForBranch(r)
    PROVE  Serial' /\ \A q \in Runs : Pushing(q)'
<1> DEFINE found == branches[run[r].name]
           s == [run[r] EXCEPT !.pc = "list", !.commit = found]
<1>1. run \in [Runs -> RunStates] /\ run[r] \in RunStates /\ charts' = charts
    BY DEF LookForBranch, artifactVars, Inv, TypeInv, TypeOK
<1>2. Goto(r, "push branch") \/ End(r) \/ run' = [run EXCEPT ![r] = s]
    BY <1>1 DEF LookForBranch
<1>3. s.pc = "list" /\ s.workflow = run[r].workflow
    BY <1>1 DEF RunStates
<1> HIDE DEF s
<1>4. CASE run' = [run EXCEPT ![r] = s]
    BY <1>1, <1>3, <1>4, RunMoves DEF Inv, Serial
<1> QED BY <1>1, <1>2, <1>4, GotoInv, EndInv

LEMMA StepInv ==
    ASSUME Inv, NEW r \in Runs, Step(r)
    PROVE  Serial' /\ \A q \in Runs : Pushing(q)'
<1>1. CASE ChartStatus(r)
    BY <1>1, ChartStatusInv
<1>2. CASE PushChart(r)
    BY <1>2, PushChartInv
<1>3. CASE PullCharts(r)
    BY <1>3, RequireInv DEF PullCharts, artifactVars
<1>4. CASE PushTag(r)
    BY <1>4, RequireInv DEF PushTag
<1>5. CASE CreateRelease(r)
    <2> DEFINE pc == IF releases[Version(r)] = None THEN "upload" ELSE "download"
    <2>1. Goto(r, pc) /\ charts' = charts /\ pc \notin {"status", "push"}
        BY <1>5 DEF CreateRelease
    <2> HIDE DEF pc
    <2> QED BY <2>1, GotoInv
<1>6. CASE UploadAssets(r)
    BY <1>6, GotoInv DEF UploadAssets
<1>7. CASE VerifyRelease(r)
    BY <1>7, RequireInv DEF VerifyRelease, artifactVars
<1>8. CASE FetchMain(r)
    BY <1>8, FetchMainInv
<1>9. CASE LookForBranch(r)
    BY <1>9, LookForBranchInv
<1>10. CASE PushBranch(r)
    <2>1. Require(r, LeaseHolds(run[r].name), "list") /\ charts' = charts
        BY <1>10 DEF PushBranch, artifactVars
    <2> QED BY <2>1, RequireInv
<1>11. CASE ListPulls(r)
    <2> DEFINE condition == ~run[r].promoted /\ \A p \in pulls : p.name # run[r].name
    <2>1. Require(r, condition, "create") /\ charts' = charts
        BY <1>11 DEF ListPulls, artifactVars
    <2> HIDE DEF condition
    <2> QED BY <2>1, RequireInv
<1>12. CASE CreatePull(r)
    BY <1>12, EndInv DEF CreatePull, artifactVars
<1> QED BY <1>1, <1>2, <1>3, <1>4, <1>5, <1>6, <1>7, <1>8, <1>9, <1>10, <1>11, <1>12 DEF Step

LEMMA NextInv == Inv /\ [Next]_vars => Inv'
<1> SUFFICES ASSUME Inv, [Next]_vars PROVE Inv'
    OBVIOUS
<1>1. TypeInv'
    BY NextType DEF Inv
<1>2. ASSUME UNCHANGED <<run, charts>> PROVE Serial' /\ \A q \in Runs : Pushing(q)'
    BY <1>2 DEF Inv, Serial, Pushing
<1>3. ASSUME NEW r \in Runs, Step(r) \/ RunEnds(r) PROVE Inv'
    BY <1>1, <1>3, StepInv, EndInv DEF RunEnds, artifactVars, Inv
<1>4. ASSUME NEW r \in Runs, NEW v \in Versions,
             Dispatch(r, v) \/ \E b \in Builds : PromoteByHand(r, v, b)
      PROVE  Inv'
    BY <1>1, <1>4, DispatchInv, PromoteByHandInv DEF Inv
<1>5. ASSUME NEW v \in Versions,
             Merge(v, "manifest") \/ Merge(v, "catalog") \/ UpdateBranch(v)
      PROVE  Inv'
    BY <1>1, <1>2, <1>5 DEF Merge, UpdateBranch, artifactVars, Inv
<1>6. CASE Maintain
    BY <1>1, <1>2, <1>6 DEF Maintain, artifactVars, Inv
<1>7. CASE UNCHANGED vars
    BY <1>1, <1>2, <1>7 DEF vars, artifactVars, Inv
<1> QED BY <1>3, <1>4, <1>5, <1>6, <1>7 DEF Next

LEMMA InitInv == Init => Inv
<1>1. Init => Serial /\ \A r \in Runs : Pushing(r)
    BY DEF Init, NoRun, Serial, Pushing
<1> QED BY <1>1, InitType DEF Inv

\* Only three actions write what Stays is about; each writes what was absent.
LEMMA StepStays == Inv /\ [Next]_vars => [Stays]_vars
<1> SUFFICES ASSUME Inv, Next PROVE Stays
    OBVIOUS
<1> USE DEF Stays
<1>1. /\ charts \in [Versions -> [Charts -> Packages \cup {None}]]
      /\ tags \in [Versions -> Sources \cup {None}]
      /\ releases \in [Versions -> Builds \cup {None}]
    BY DEF Inv, TypeInv, TypeOK
<1>2. ASSUME UNCHANGED <<charts, tags, releases>> PROVE Stays
    BY <1>2
<1>3. ASSUME NEW r \in Runs, Step(r) PROVE Stays
    <2>1. CASE PushChart(r)
        <3>1. PICK c \in run[r].needed :
                 charts' = [charts EXCEPT ![Version(r)][c] = Bytes[Build(r)][c]]
            BY <2>1 DEF PushChart
        <3>2. charts[Version(r)][c] = None /\ UNCHANGED <<tags, releases>>
            BY <2>1, <3>1 DEF PushChart, Inv, Pushing, Version
        <3> QED BY <1>1, <3>1, <3>2
    <2>2. CASE PushTag(r)
        BY <1>1, <2>2 DEF PushTag
    <2>3. CASE CreateRelease(r)
        BY <1>1, <2>3 DEF CreateRelease
    <2> QED BY <1>2, <1>3, <2>1, <2>2, <2>3
            DEF Step, ChartStatus, PullCharts, UploadAssets, VerifyRelease, FetchMain,
                LookForBranch, PushBranch, ListPulls, CreatePull, artifactVars
<1>4. ASSUME NEW r \in Runs, NEW v \in Versions,
             Dispatch(r, v) \/ \E b \in Builds : PromoteByHand(r, v, b)
      PROVE  Stays
    BY <1>2, <1>4 DEF Dispatch, PromoteByHand, artifactVars
<1>5. ASSUME NEW r \in Runs, RunEnds(r) PROVE Stays
    BY <1>2, <1>5 DEF RunEnds, artifactVars
<1>6. ASSUME NEW v \in Versions,
             Merge(v, "manifest") \/ Merge(v, "catalog") \/ UpdateBranch(v)
      PROVE  Stays
    BY <1>2, <1>6 DEF Merge, UpdateBranch, artifactVars
<1>7. CASE Maintain
    BY <1>2, <1>7 DEF Maintain, artifactVars
<1> HIDE DEF Stays
<1> QED BY <1>3, <1>4, <1>5, <1>6, <1>7 DEF Next

\* RELEASING.md's promise: whatever runs beside, after or instead of the one that
\* published a version's charts, tag and GitHub release, they never change.
THEOREM ArtifactsStay == Spec => PublishedStays
BY InitInv, NextInv, StepStays, PTL DEF Spec, PublishedStays
-----------------------------------------------------------------------------
(* What the stable catalog selects is published in full, or was promoted   *)
(* by hand when it was not.  The invariant follows a release from its      *)
(* artifacts, or from the manifest somebody promoted, through the run that *)
(* published or found it and the branch it pushed, to main.                *)
Published(v, b) ==
    v \in complete /\ releases[v] = b /\ tags[v] = Source[b] /\ charts[v] = Bytes[b]

\* A build that is published, or was promoted by hand without being that.
Cleared(v, b) == <<v, b>> \in byHand \/ Published(v, b)

\* A GitHub release is created last, and completed after that.
Artifacts ==
    \A v \in Versions :
        /\ releases[v] # None => /\ tags[v] = Source[releases[v]]
                                 /\ charts[v] = Bytes[releases[v]]
        /\ v \in complete => releases[v] # None

\* What a run has established when it comes to a step.
Drafted(n, c) ==
    /\ c.base \in 1 .. Len(main) /\ \A e \in main[c.base].catalog : e.version # n[2]
    /\ n[1] = "catalog" => /\ c.at \in 1 .. Len(main) /\ main[c.at].manifest[n[2]] = c.build
                           /\ Cleared(n[2], c.build)
Established(s) ==
    /\ s.pc # "idle" /\ s.tag # None => tags[s.version] = s.tag /\ s.tag = Source[s.build]
    /\ s.pc \in {"tag", "release"} => charts[s.version] = Bytes[s.build]
    /\ s.pc = "release" => tags[s.version] = Source[s.build]
    /\ s.pc = "upload" => releases[s.version] = s.build
    /\ s.pc \in {"fetch", "look", "push branch"} => Cleared(s.version, s.build)
    /\ s.pc \in {"look", "push branch"} => s.name[2] = s.version /\ Drafted(s.name, s.commit)

\* What a branch proposes, and what main retains.
Proposals == \A n \in Names : branches[n] # None => Drafted(n, branches[n])
Retained ==
    \A v \in Versions : Tip.manifest[v] # None =>
        Tip.since[v] \in 1 .. Len(main) /\ main[Tip.since[v]].manifest[v] = Tip.manifest[v]

Selectable ==
    /\ Inv /\ Artifacts /\ Proposals /\ Retained /\ CatalogSound
    /\ \A r \in Runs : Established(run[r])

\* main only grows.
LEMMA Appended ==
    ASSUME TypeInv, NEW m, main' = Append(main, m)
    PROVE  /\ Len(main') = Len(main) + 1 /\ Tip' = m
           /\ \A i \in 1 .. Len(main) : main'[i] = main[i]
<1>1. main \in Seq(MainCommits) /\ Len(main) \in Nat
    BY DEF TypeInv, TypeOK
<1>2. Len(main') = Len(main) + 1 /\ main'[Len(main) + 1] = m
    BY <1>1
<1>3. \A i \in 1 .. Len(main) : main'[i] = main[i]
    BY <1>1
<1> QED BY <1>2, <1>3 DEF Tip

LEMMA MainStep ==
    [Next]_vars => UNCHANGED main \/ \E m : main' = Append(main, m)
<1> SUFFICES ASSUME [Next]_vars PROVE UNCHANGED main \/ \E m : main' = Append(main, m)
    OBVIOUS
<1>1. ASSUME NEW r \in Runs, Step(r) \/ RunEnds(r) PROVE UNCHANGED main
    BY <1>1 DEF Step, RunEnds, ChartStatus, PushChart, PullCharts, PushTag, CreateRelease,
       UploadAssets, VerifyRelease, FetchMain, LookForBranch, PushBranch, ListPulls,
       CreatePull, repoVars
<1>2. ASSUME NEW r \in Runs, NEW v \in Versions,
             Dispatch(r, v) \/ \E b \in Builds : PromoteByHand(r, v, b)
      PROVE  UNCHANGED main
    BY <1>2 DEF Dispatch, PromoteByHand, repoVars
<1>3. ASSUME NEW v \in Versions, Merge(v, "manifest") \/ Merge(v, "catalog")
      PROVE  \E m : main' = Append(main, m)
    BY <1>3 DEF Merge, Retain
<1>4. ASSUME NEW v \in Versions, UpdateBranch(v) PROVE UNCHANGED main
    BY <1>4 DEF UpdateBranch
<1>5. CASE Maintain
    BY <1>5 DEF Maintain, Retain, repoVars
<1>6. CASE UNCHANGED vars
    BY <1>6 DEF vars, repoVars
<1> QED BY <1>1, <1>2, <1>3, <1>4, <1>5, <1>6 DEF Next

LEMMA MainGrows ==
    ASSUME TypeInv, [Next]_vars
    PROVE  Len(main') >= Len(main) /\ \A i \in 1 .. Len(main) : main'[i] = main[i]
<1>1. CASE UNCHANGED main
    BY <1>1, TipType
<1>2. ASSUME NEW m, main' = Append(main, m)
      PROVE  Len(main') >= Len(main) /\ \A i \in 1 .. Len(main) : main'[i] = main[i]
    BY <1>2, Appended, TipType
<1> QED BY <1>1, <1>2, MainStep

\* What is published stays, so what was established keeps holding.
LEMMA CompleteStays == [Next]_vars => complete \subseteq complete'
<1> SUFFICES ASSUME [Next]_vars PROVE complete \subseteq complete'
    OBVIOUS
<1>1. ASSUME NEW r \in Runs, Step(r) \/ RunEnds(r) PROVE complete \subseteq complete'
    BY <1>1 DEF Step, RunEnds, ChartStatus, PushChart, PullCharts, PushTag, CreateRelease,
       UploadAssets, VerifyRelease, FetchMain, LookForBranch, PushBranch, ListPulls,
       CreatePull, artifactVars
<1>2. ASSUME NEW r \in Runs, NEW v \in Versions,
             Dispatch(r, v) \/ \E b \in Builds : PromoteByHand(r, v, b)
      PROVE  UNCHANGED complete
    BY <1>2 DEF Dispatch, PromoteByHand, artifactVars
<1>3. ASSUME NEW v \in Versions,
             Merge(v, "manifest") \/ Merge(v, "catalog") \/ UpdateBranch(v)
      PROVE  UNCHANGED complete
    BY <1>3 DEF Merge, UpdateBranch, artifactVars
<1>4. CASE Maintain \/ UNCHANGED vars
    BY <1>4 DEF Maintain, vars, artifactVars
<1> QED BY <1>1, <1>2, <1>3, <1>4 DEF Next

LEMMA StayFacts ==
    ASSUME Inv, [Next]_vars, NEW v \in Versions
    PROVE  /\ tags[v] # None => tags'[v] = tags[v]
           /\ releases[v] # None => releases'[v] = releases[v]
           /\ \A b \in Builds : charts[v] = Bytes[b] => charts'[v] = Bytes[b]
           /\ v \in complete => v \in complete'
<1>1. Stays \/ UNCHANGED vars
    BY StepStays
<1>2. /\ \A c \in Charts : charts[v][c] # None => charts'[v][c] = charts[v][c]
      /\ tags[v] # None => tags'[v] = tags[v]
      /\ releases[v] # None => releases'[v] = releases[v]
    BY <1>1 DEF Stays, vars, artifactVars
<1>3. ASSUME NEW b \in Builds, charts[v] = Bytes[b] PROVE charts'[v] = Bytes[b]
    <2>1. charts[v] \in [Charts -> Packages \cup {None}]
          /\ charts'[v] \in [Charts -> Packages \cup {None}]
        BY NextType DEF Inv, TypeInv, TypeOK, Packages
    <2>2. \A c \in Charts : charts'[v][c] = charts[v][c]
        BY <1>2, <1>3, PublicationAssumption
    <2>3. charts'[v] = charts[v]
        BY <2>1, <2>2
    <2> QED BY <1>3, <2>3
<1> QED BY <1>2, <1>3, CompleteStays

LEMMA PublishedStay ==
    ASSUME Inv, [Next]_vars, NEW v \in Versions, NEW b \in Builds, Published(v, b)
    PROVE  Published(v, b)'
BY StayFacts, PublicationAssumption DEF Published

\* byHand is history.
LEMMA HandsStay == [Next]_vars => byHand \subseteq byHand'
<1> SUFFICES ASSUME [Next]_vars PROVE byHand \subseteq byHand'
    OBVIOUS
<1>1. ASSUME NEW r \in Runs, NEW v \in Versions, NEW b \in Builds, PromoteByHand(r, v, b)
      PROVE  byHand \subseteq byHand'
    BY <1>1 DEF PromoteByHand
<1>2. ASSUME NEW r \in Runs,
             Step(r) \/ RunEnds(r) \/ \E v \in Versions : Dispatch(r, v)
      PROVE  UNCHANGED byHand
    BY <1>2 DEF Step, RunEnds, Dispatch, ChartStatus, PushChart, PullCharts, PushTag,
       CreateRelease, UploadAssets, VerifyRelease, FetchMain, LookForBranch, PushBranch,
       ListPulls, CreatePull
<1>3. ASSUME NEW v \in Versions,
             Merge(v, "manifest") \/ Merge(v, "catalog") \/ UpdateBranch(v)
      PROVE  UNCHANGED byHand
    BY <1>3 DEF Merge, UpdateBranch
<1>4. CASE Maintain \/ UNCHANGED vars
    BY <1>4 DEF Maintain, vars
<1> QED BY <1>1, <1>2, <1>3, <1>4 DEF Next

LEMMA ClearedStays ==
    ASSUME Inv, [Next]_vars, NEW v \in Versions, NEW b \in Builds, Cleared(v, b)
    PROVE  Cleared(v, b)'
BY HandsStay, PublishedStay DEF Cleared

LEMMA DraftedStays ==
    ASSUME Inv, [Next]_vars, NEW n \in Names, NEW c \in Commits, Drafted(n, c)
    PROVE  Drafted(n, c)'
<1>1. n[2] \in Versions /\ c.build \in Builds /\ c.base \in Nat /\ c.at \in Nat
    BY DEF Names, Commits
<1>2. Len(main') >= Len(main) /\ \A i \in 1 .. Len(main) : main'[i] = main[i]
    BY MainGrows DEF Inv
<1>3. Len(main) \in Nat /\ Len(main') \in Nat
    BY TipType, NextType DEF Inv, TypeInv, TypeOK
<1>4. c.base \in 1 .. Len(main') /\ main'[c.base] = main[c.base]
    BY <1>2, <1>3 DEF Drafted
<1>5. ASSUME n[1] = "catalog"
      PROVE  c.at \in 1 .. Len(main') /\ main'[c.at] = main[c.at] /\ Cleared(n[2], c.build)'
    BY <1>1, <1>2, <1>3, <1>5, ClearedStays DEF Drafted
<1> QED BY <1>4, <1>5 DEF Drafted

LEMMA EstablishedStays ==
    ASSUME Inv, [Next]_vars, NEW s \in RunStates, Established(s),
           s.pc # "idle" => s.version \in Versions /\ s.build \in Builds,
           s.pc \in {"look", "push branch"} => s.name \in Names /\ s.commit \in Commits
    PROVE  Established(s)'
<1>1. ASSUME s.pc # "idle", s.tag # None
      PROVE  tags'[s.version] = s.tag /\ s.tag = Source[s.build]
    BY <1>1, StayFacts DEF Established
<1>2. ASSUME s.pc \in {"tag", "release"} PROVE charts'[s.version] = Bytes[s.build]
    BY <1>2, StayFacts DEF Established
<1>3. ASSUME s.pc = "release" PROVE tags'[s.version] = Source[s.build]
    BY <1>3, StayFacts, PublicationAssumption DEF Established
<1>4. ASSUME s.pc = "upload" PROVE releases'[s.version] = s.build
    BY <1>4, StayFacts, PublicationAssumption DEF Established
<1>5. ASSUME s.pc \in {"fetch", "look", "push branch"} PROVE Cleared(s.version, s.build)'
    BY <1>5, ClearedStays DEF Established
<1>6. ASSUME s.pc \in {"look", "push branch"}
      PROVE  s.name[2] = s.version /\ Drafted(s.name, s.commit)'
    BY <1>6, DraftedStays DEF Established
<1> QED BY <1>1, <1>2, <1>3, <1>4, <1>5, <1>6 DEF Established

\* The records a run passes through keep what it has established.
LEMMA WrittenRun ==
    ASSUME Selectable, [Next]_vars, NEW r \in Runs, NEW s, run' = [run EXCEPT ![r] = s],
           Established(s)'
    PROVE  \A q \in Runs : Established(run[q])'
<1>1. run \in [Runs -> RunStates]
    BY DEF Selectable, Inv, TypeInv, TypeOK
<1>2. run'[r] = s /\ \A q \in Runs : q # r => run'[q] = run[q]
    BY <1>1
<1>3. ASSUME NEW q \in Runs, q # r, NEW t, t = run[q] PROVE Established(t)'
    <2>1. /\ t \in RunStates /\ Established(t)
          /\ t.pc # "idle" => t.version \in Versions /\ t.build \in Builds
          /\ t.pc \in {"look", "push branch"} => t.name \in Names /\ t.commit \in Commits
        BY <1>3, RunKnows DEF Selectable, Inv, Version, Build
    <2> QED BY <2>1, EstablishedStays DEF Selectable
<1>4. ASSUME NEW q \in Runs PROVE Established(run[q])'
    <2>1. ASSUME NEW t, t = run'[q] PROVE Established(t)'
        BY <1>2, <1>3, <2>1
    <2> QED BY <2>1 DEF Established, Drafted, Cleared, Published
<1> QED BY <1>4

LEMMA UnwrittenRuns ==
    ASSUME Selectable, [Next]_vars, UNCHANGED run PROVE \A q \in Runs : Established(run[q])'
<1>1. ASSUME NEW q \in Runs, NEW t, t = run'[q] PROVE Established(t)'
    <2>1. /\ t \in RunStates /\ Established(t)
          /\ t.pc # "idle" => t.version \in Versions /\ t.build \in Builds
          /\ t.pc \in {"look", "push branch"} => t.name \in Names /\ t.commit \in Commits
        BY <1>1, RunKnows DEF Selectable, Inv, Version, Build
    <2> QED BY <2>1, EstablishedStays DEF Selectable
<1>2. ASSUME NEW q \in Runs PROVE Established(run[q])'
    BY <1>1, <1>2 DEF Established, Drafted, Cleared, Published
<1> QED BY <1>2

LEMMA EndEstablished ==
    ASSUME Selectable, [Next]_vars, NEW r \in Runs, End(r)
    PROVE  \A q \in Runs : Established(run[q])'
<1>1. NoRun.pc = "idle" /\ NoRun.tag = None
    BY DEF NoRun
<1>2. Established(NoRun)'
    BY <1>1 DEF Established
<1> QED BY <1>2, WrittenRun DEF End

\* A run that goes on to a step that rests on nothing but the tag it saw.
Plain == {"push", "download", "list", "create"}
LEMMA PlainEstablished ==
    ASSUME Selectable, [Next]_vars, NEW r \in Runs, NEW s \in RunStates,
           run' = [run EXCEPT ![r] = s], s.pc \in Plain, run[r].pc # "idle",
           s.version = run[r].version, s.build = run[r].build, s.tag = run[r].tag
    PROVE  \A q \in Runs : Established(run[q])'
<1>1. s.version \in Versions /\ s.build \in Builds
    BY RunKnows DEF Selectable, Inv, Version, Build
<1>2. Established(s)
    BY DEF Selectable, Established, Plain
<1>3. Established(s)'
    BY <1>1, <1>2, EstablishedStays DEF Selectable, Plain
<1> QED BY <1>3, WrittenRun

\* The steps up to the GitHub release establish what the next ones rest on.
LEMMA DispatchEstablished ==
    ASSUME Selectable, [Next]_vars, NEW r \in Runs, NEW v \in Versions, Dispatch(r, v)
    PROVE  \A q \in Runs : Established(run[q])'
<1> PICK s : s = [NoRun EXCEPT !.pc = "status", !.workflow = TRUE, !.version = v,
                               !.build = evidence[v], !.tag = tags[v]]
    OBVIOUS
<1>1. evidence[v] \in Builds /\ tags[v] \in Sources \cup {None}
    BY DEF Selectable, Inv, TypeInv, TypeOK
<1>2. /\ s \in RunStates /\ s.pc = "status" /\ s.version = v /\ s.build = evidence[v]
      /\ s.tag = tags[v]
    BY <1>1 DEF NoRun, RunStates, Pcs
<1>3. run' = [run EXCEPT ![r] = s] /\ tags[v] \in {None, Source[evidence[v]]}
    BY DEF Dispatch
<1>4. Established(s)
    BY <1>2, <1>3 DEF Established
<1>5. Established(s)'
    BY <1>1, <1>2, <1>4, EstablishedStays DEF Selectable
<1> QED BY <1>3, <1>5, WrittenRun

LEMMA ChartStatusEstablished ==
    ASSUME Selectable, [Next]_vars, NEW r \in Runs, ChartStatus(r)
    PROVE  \A q \in Runs : Established(run[q])'
<1> DEFINE needed == {c \in Charts : charts[Version(r)][c] = None}
           s == [run[r] EXCEPT !.pc = "push", !.needed = needed]
<1>1. run \in [Runs -> RunStates] /\ run[r] \in RunStates /\ run[r].pc = "status"
    BY DEF ChartStatus, Selectable, Inv, TypeInv, TypeOK
<1>2. run' = [run EXCEPT ![r] = s] \/ End(r)
    BY <1>1 DEF ChartStatus
<1>3. /\ s \in RunStates /\ s.pc \in Plain /\ s.version = run[r].version
      /\ s.build = run[r].build /\ s.tag = run[r].tag
    BY <1>1 DEF RunStates, Pcs, Plain
<1> HIDE DEF s
<1> QED BY <1>1, <1>2, <1>3, PlainEstablished, EndEstablished

LEMMA PushChartEstablished ==
    ASSUME Selectable, [Next]_vars, NEW r \in Runs, PushChart(r)
    PROVE  \A q \in Runs : Established(run[q])'
<1>1. PICK c \in run[r].needed : run' = [run EXCEPT ![r].needed = @ \ {c}]
    BY DEF PushChart
<1> DEFINE s == [run[r] EXCEPT !.needed = @ \ {c}]
<1>2. run \in [Runs -> RunStates] /\ run[r] \in RunStates /\ run[r].pc = "push"
    BY DEF PushChart, Selectable, Inv, TypeInv, TypeOK
<1>3. /\ s \in RunStates /\ s.pc \in Plain /\ s.version = run[r].version
      /\ s.build = run[r].build /\ s.tag = run[r].tag
    BY <1>2 DEF RunStates, Plain
<1>4. run' = [run EXCEPT ![r] = s]
    BY <1>1, <1>2
<1> HIDE DEF s
<1> QED BY <1>2, <1>3, <1>4, PlainEstablished

\* Going on to another step writes one field of the run.
LEMMA GotoWrites ==
    ASSUME TypeInv, NEW r \in Runs, NEW pc \in Pcs, Goto(r, pc)
    PROVE  \E s \in RunStates :
               /\ run' = [run EXCEPT ![r] = s] /\ s.pc = pc /\ s.version = run[r].version
               /\ s.build = run[r].build /\ s.tag = run[r].tag
               /\ s.name = run[r].name /\ s.commit = run[r].commit
<1> DEFINE s == [run[r] EXCEPT !.pc = pc]
<1>1. run \in [Runs -> RunStates] /\ run[r] \in RunStates
    BY DEF TypeInv, TypeOK
<1>2. /\ s \in RunStates /\ s.pc = pc /\ s.version = run[r].version
      /\ s.build = run[r].build /\ s.tag = run[r].tag
      /\ s.name = run[r].name /\ s.commit = run[r].commit
    BY <1>1 DEF RunStates
<1>3. run' = [run EXCEPT ![r] = s]
    BY <1>1 DEF Goto
<1> QED BY <1>2, <1>3

LEMMA PlainStep ==
    ASSUME Selectable, [Next]_vars, NEW r \in Runs, NEW pc \in Plain, Goto(r, pc),
           run[r].pc # "idle"
    PROVE  \A q \in Runs : Established(run[q])'
<1>1. pc \in Pcs
    BY DEF Plain, Pcs
<1> QED BY <1>1, GotoWrites, PlainEstablished DEF Selectable, Inv

LEMMA PullChartsEstablished ==
    ASSUME Selectable, [Next]_vars, NEW r \in Runs, PullCharts(r)
    PROVE  \A q \in Runs : Established(run[q])'
<1>1. CASE Goto(r, "tag") /\ charts[Version(r)] = Bytes[Build(r)]
    <2>1. PICK s \in RunStates :
             /\ run' = [run EXCEPT ![r] = s] /\ s.pc = "tag" /\ s.version = run[r].version
             /\ s.build = run[r].build /\ s.tag = run[r].tag
        <3>1. "tag" \in Pcs
            BY DEF Pcs
        <3> QED BY <1>1, <3>1, GotoWrites DEF Selectable, Inv
    <2>2. run[r].pc = "push" /\ s.version \in Versions /\ s.build \in Builds
        BY <2>1, RunKnows DEF PullCharts, Selectable, Inv, Version, Build
    <2>3. Established(s)
        BY <1>1, <2>1, <2>2 DEF Selectable, Established, Version, Build
    <2>4. Established(s)'
        BY <2>1, <2>2, <2>3, EstablishedStays DEF Selectable
    <2> QED BY <2>1, <2>4, WrittenRun
<1> QED BY <1>1, EndEstablished DEF PullCharts, Require

\* The tag is the build's own: the run pushed it, or saw it, and it stayed.
LEMMA PushTagEstablished ==
    ASSUME Selectable, [Next]_vars, NEW r \in Runs, PushTag(r)
    PROVE  \A q \in Runs : Established(run[q])'
<1>1. CASE /\ Goto(r, "release")
           /\ run[r].tag # None \/ tags[Version(r)] \in {None, Source[Build(r)]}
    <2>1. PICK s \in RunStates :
             /\ run' = [run EXCEPT ![r] = s] /\ s.pc = "release" /\ s.version = run[r].version
             /\ s.build = run[r].build /\ s.tag = run[r].tag
        <3>1. "release" \in Pcs
            BY DEF Pcs
        <3> QED BY <1>1, <3>1, GotoWrites DEF Selectable, Inv
    <2>2. run[r].pc = "tag" /\ s.version \in Versions /\ s.build \in Builds
        BY <2>1, RunKnows DEF PushTag, Selectable, Inv, Version, Build
    <2>3. charts'[s.version] = Bytes[s.build]
        BY <2>1, <2>2, StayFacts DEF Selectable, Established
    <2>4. /\ s.tag # None => tags[s.version] = s.tag /\ s.tag = Source[s.build]
          /\ tags \in [Versions -> Sources \cup {None}]
          /\ tags' = [tags EXCEPT ![s.version] = IF @ = None THEN Source[s.build] ELSE @]
        BY <2>1, <2>2 DEF PushTag, Version, Build, Selectable, Established, Inv, TypeInv, TypeOK
    <2>5. tags'[s.version] = Source[s.build]
        BY <1>1, <2>1, <2>2, <2>4 DEF Version, Build
    <2>6. Established(s)'
        BY <2>1, <2>3, <2>4, <2>5 DEF Established
    <2> QED BY <2>1, <2>6, WrittenRun
<1> QED BY <1>1, EndEstablished DEF PushTag, Require

LEMMA CreateReleaseEstablished ==
    ASSUME Selectable, [Next]_vars, NEW r \in Runs, CreateRelease(r)
    PROVE  \A q \in Runs : Established(run[q])'
<1>1. run[r].pc = "release" /\ run[r].version \in Versions /\ run[r].build \in Builds
    BY RunKnows DEF CreateRelease, Selectable, Inv, Version, Build
<1>2. CASE releases[Version(r)] # None
    BY <1>1, <1>2, PlainStep DEF CreateRelease, Plain
<1>3. CASE releases[Version(r)] = None
    <2>1. PICK s \in RunStates :
             /\ run' = [run EXCEPT ![r] = s] /\ s.pc = "upload" /\ s.version = run[r].version
             /\ s.build = run[r].build /\ s.tag = run[r].tag
        <3>1. Goto(r, "upload") /\ "upload" \in Pcs
            BY <1>3 DEF CreateRelease, Pcs
        <3> QED BY <3>1, GotoWrites DEF Selectable, Inv
    <2>2. releases'[s.version] = s.build
        BY <1>1, <1>3, <2>1 DEF CreateRelease, Version, Build, Selectable, Inv, TypeInv, TypeOK
    <2>3. s.tag # None => tags'[s.version] = s.tag /\ s.tag = Source[s.build]
        BY <1>1, <2>1, StayFacts DEF Selectable, Established
    <2>4. Established(s)'
        BY <2>1, <2>2, <2>3 DEF Established
    <2> QED BY <2>1, <2>4, WrittenRun
<1> QED BY <1>2, <1>3

\* What was downloaded in full and compared is published.
LEMMA VerifyReleaseEstablished ==
    ASSUME Selectable, [Next]_vars, NEW r \in Runs, VerifyRelease(r)
    PROVE  \A q \in Runs : Established(run[q])'
<1>1. CASE Goto(r, "fetch") /\ Released(Version(r), Build(r))
    <2>1. PICK s \in RunStates :
             /\ run' = [run EXCEPT ![r] = s] /\ s.pc = "fetch" /\ s.version = run[r].version
             /\ s.build = run[r].build /\ s.tag = run[r].tag
        <3>1. "fetch" \in Pcs
            BY DEF Pcs
        <3> QED BY <1>1, <3>1, GotoWrites DEF Selectable, Inv
    <2>2. run[r].pc = "download" /\ s.version \in Versions /\ s.build \in Builds
        BY <2>1, RunKnows DEF VerifyRelease, Selectable, Inv, Version, Build
    <2>3. Published(s.version, s.build)
        BY <1>1, <2>1, <2>2, PublicationAssumption
           DEF Released, Version, Build, Selectable, Artifacts, Published
    <2>4. Established(s)
        BY <2>1, <2>2, <2>3 DEF Selectable, Established, Cleared
    <2>5. Established(s)'
        BY <2>1, <2>2, <2>4, EstablishedStays DEF Selectable
    <2> QED BY <2>1, <2>5, WrittenRun
<1> QED BY <1>1, EndEstablished DEF VerifyRelease, Require

\* A manifest promoted by hand is that of a published release, or noted.
LEMMA PromoteByHandEstablished ==
    ASSUME Selectable, [Next]_vars, NEW r \in Runs, NEW v \in Versions, NEW b \in Builds,
           PromoteByHand(r, v, b)
    PROVE  \A q \in Runs : Established(run[q])'
<1> PICK s : s = [NoRun EXCEPT !.pc = "fetch", !.version = v, !.build = b]
    OBVIOUS
<1>1. s.pc = "fetch" /\ s.version = v /\ s.build = b /\ s.tag = None
    BY DEF NoRun
<1>2. run' = [run EXCEPT ![r] = s]
    BY DEF PromoteByHand
<1>3. Cleared(v, b)'
    <2>1. CASE Released(v, b)
        <3>1. Published(v, b)
            BY <2>1, PublicationAssumption DEF Released, Selectable, Artifacts, Published
        <3> QED BY <3>1, PublishedStay DEF Selectable, Cleared
    <2>2. CASE ~Released(v, b)
        BY <2>2 DEF PromoteByHand, Cleared
    <2> QED BY <2>1, <2>2
<1>4. Established(s)'
    BY <1>1, <1>3 DEF Established
<1> QED BY <1>2, <1>4, WrittenRun

\* What a run that fetched main is about to propose: the manifest of a release
\* it found published, or the one on main, with the commit that retained it.
LEMMA FetchMainEstablished ==
    ASSUME Selectable, [Next]_vars, NEW r \in Runs, FetchMain(r)
    PROVE  \A q \in Runs : Established(run[q])'
<1> DEFINE v == Version(r)
           b == Build(r)
           promoted == \E e \in Tip.catalog : e.version = v
           select == CatalogPhase(Tip, v)
           commit == [base |-> Len(main),
                      build |-> IF select THEN Tip.manifest[v] ELSE b,
                      at |-> IF select THEN Tip.since[v] ELSE 0]
           name == <<IF select THEN "catalog" ELSE "manifest", v>>
           pc == IF promoted THEN "list" ELSE "look"
           written == [run[r] EXCEPT !.pc = pc, !.head = Len(main), !.promoted = promoted,
                                     !.name = name, !.commit = commit]
<1>1. /\ run[r] \in RunStates /\ run \in [Runs -> RunStates] /\ run[r].pc = "fetch"
      /\ v \in Versions /\ b \in Builds
    BY RunKnows DEF FetchMain, Selectable, Inv
<1>2. Tip \in MainCommits /\ Len(main) \in Nat /\ Len(main) > 0
    BY TipType DEF Selectable, Inv
<1>3. \/ End(r)
      \/ run' = [run EXCEPT ![r] = written] /\ ManifestVerified(Tip, v, b)
    BY <1>1 DEF FetchMain
<1>4. CASE run' = [run EXCEPT ![r] = written] /\ ManifestVerified(Tip, v, b)
    <2>1. commit \in Commits
        <3>1. (IF select THEN Tip.manifest[v] ELSE b) \in Builds
            BY <1>1, <1>2 DEF CatalogPhase, MainCommits
        <3>2. (IF select THEN Tip.since[v] ELSE 0) \in Nat
            BY <1>1, <1>2 DEF MainCommits
        <3> QED BY <1>2, <3>1, <3>2 DEF Commits
    <2>2. name \in Names
        BY <1>1 DEF Names
    <2>3. Cleared(v, b)
        BY <1>1 DEF Selectable, Established, Version, Build
    <2>4. ~promoted => Drafted(name, commit)
        <3>1. commit.base = Len(main) /\ main[Len(main)] = Tip /\ name[2] = v
            BY DEF Tip
        <3>2. ASSUME ~promoted
              PROVE  commit.base \in 1 .. Len(main)
                     /\ \A e \in main[commit.base].catalog : e.version # name[2]
            BY <1>2, <3>1, <3>2
        <3>3. ASSUME name[1] = "catalog"
              PROVE  /\ commit.at \in 1 .. Len(main) /\ main[commit.at].manifest[v] = commit.build
                     /\ Cleared(v, commit.build)
            <4>1. Tip.manifest[v] # None
                BY <3>3 DEF CatalogPhase
            <4>2. Tip.manifest[v] = b /\ commit.build = b /\ commit.at = Tip.since[v]
                BY <1>4, <4>1 DEF ManifestVerified, CatalogPhase
            <4> QED BY <1>1, <2>3, <4>1, <4>2 DEF Selectable, Retained
        <3> QED BY <3>1, <3>2, <3>3 DEF Drafted
    <2>5. pc \in {"list", "look"} /\ promoted \in BOOLEAN /\ (pc = "look" => ~promoted)
        OBVIOUS
    <2>6. name[2] = v
        OBVIOUS
    <2> HIDE DEF commit, name, pc, promoted
    <2>7. /\ written \in RunStates /\ written.pc = pc /\ written.version = run[r].version
          /\ written.build = run[r].build /\ written.tag = run[r].tag
          /\ written.name = name /\ written.commit = commit
        BY <1>1, <1>2, <2>1, <2>2, <2>5 DEF RunStates, Pcs
    <2> PICK s : s = written
        OBVIOUS
    <2> HIDE DEF written
    <2>8. Established(s)
        BY <1>1, <2>3, <2>4, <2>5, <2>6, <2>7 DEF Selectable, Established, Version, Build
    <2>9. Established(s)'
        BY <1>1, <2>1, <2>2, <2>7, <2>8, EstablishedStays DEF Selectable, Version, Build
    <2> QED BY <1>4, <2>9, WrittenRun
<1> HIDE DEF written
<1> QED BY <1>3, <1>4, EndEstablished

LEMMA LookForBranchEstablished ==
    ASSUME Selectable, [Next]_vars, NEW r \in Runs, LookForBranch(r)
    PROVE  \A q \in Runs : Established(run[q])'
<1> DEFINE found == branches[run[r].name]
           s == [run[r] EXCEPT !.pc = "list", !.commit = found]
<1>1. /\ run[r] \in RunStates /\ run \in [Runs -> RunStates] /\ run[r].pc = "look"
      /\ run[r].version \in Versions /\ run[r].build \in Builds
      /\ run[r].name \in Names /\ run[r].commit \in Commits
    BY RunKnows DEF LookForBranch, Version, Build, Selectable, Inv
<1>2. \/ Goto(r, "push branch") \/ End(r)
      \/ found # None /\ run' = [run EXCEPT ![r] = s]
    BY <1>1 DEF LookForBranch
<1>3. CASE Goto(r, "push branch")
    <2>1. PICK t \in RunStates :
             /\ run' = [run EXCEPT ![r] = t] /\ t.pc = "push branch" /\ t.version = run[r].version
             /\ t.build = run[r].build /\ t.tag = run[r].tag
             /\ t.name = run[r].name /\ t.commit = run[r].commit
        <3>1. "push branch" \in Pcs
            BY DEF Pcs
        <3>2. TypeInv
            BY DEF Selectable, Inv
        <3> HIDE DEF found, s
        <3> QED BY <1>3, <3>1, <3>2, GotoWrites
    <2>2. Established(t)
        BY <1>1, <2>1 DEF Selectable, Established
    <2>3. Established(t)'
        BY <1>1, <2>1, <2>2, EstablishedStays DEF Selectable
    <2> QED BY <2>1, <2>3, WrittenRun
<1>4. CASE found # None /\ run' = [run EXCEPT ![r] = s]
    <2>1. found \in Commits
        BY <1>1, <1>4 DEF Selectable, Inv, TypeInv, TypeOK
    <2> HIDE DEF found
    <2>2. /\ s \in RunStates /\ s.pc \in Plain /\ s.version = run[r].version
          /\ s.build = run[r].build /\ s.tag = run[r].tag
        BY <1>1, <2>1 DEF RunStates, Pcs, Plain
    <2> HIDE DEF s
    <2> QED BY <1>1, <1>4, <2>2, PlainEstablished
<1> QED BY <1>2, <1>3, <1>4, EndEstablished

LEMMA StepEstablished ==
    ASSUME Selectable, [Next]_vars, NEW r \in Runs, Step(r)
    PROVE  \A q \in Runs : Established(run[q])'
<1>1. CASE UploadAssets(r)
    BY <1>1, PlainStep DEF UploadAssets, Plain
<1>2. CASE PushBranch(r)
    BY <1>2, PlainStep, EndEstablished DEF PushBranch, Require, Plain
<1>3. CASE ListPulls(r)
    BY <1>3, PlainStep, EndEstablished DEF ListPulls, Require, Plain
<1>4. CASE CreatePull(r)
    BY <1>4, EndEstablished DEF CreatePull
<1> QED BY <1>1, <1>2, <1>3, <1>4, ChartStatusEstablished, PushChartEstablished,
           PullChartsEstablished, PushTagEstablished, CreateReleaseEstablished,
           VerifyReleaseEstablished, FetchMainEstablished, LookForBranchEstablished DEF Step

LEMMA RunsEstablished ==
    Selectable /\ [Next]_vars => \A q \in Runs : Established(run[q])'
<1> SUFFICES ASSUME Selectable, [Next]_vars PROVE \A q \in Runs : Established(run[q])'
    OBVIOUS
<1>1. ASSUME NEW v \in Versions,
             Merge(v, "manifest") \/ Merge(v, "catalog") \/ UpdateBranch(v)
      PROVE  UNCHANGED run
    BY <1>1 DEF Merge, UpdateBranch
<1>2. CASE Maintain \/ UNCHANGED vars
    BY <1>2, UnwrittenRuns DEF Maintain, vars
<1>3. ASSUME NEW r \in Runs, RunEnds(r) PROVE \A q \in Runs : Established(run[q])'
    BY <1>3, EndEstablished DEF RunEnds
<1> QED BY <1>1, <1>2, <1>3, UnwrittenRuns, StepEstablished, DispatchEstablished,
           PromoteByHandEstablished DEF Next

\* The charts, then the tag, then the GitHub release, then its assets.
LEMMA ArtifactsStep == Selectable /\ [Next]_vars => Artifacts'
<1> SUFFICES ASSUME Selectable, [Next]_vars PROVE Artifacts'
    OBVIOUS
<1>1. /\ charts \in [Versions -> [Charts -> Packages \cup {None}]]
      /\ tags \in [Versions -> Sources \cup {None}]
      /\ releases \in [Versions -> Builds \cup {None}]
    BY DEF Selectable, Inv, TypeInv, TypeOK
<1>2. ASSUME NEW v \in Versions, releases[v] # None
      PROVE  /\ releases'[v] = releases[v] /\ tags'[v] = Source[releases'[v]]
             /\ charts'[v] = Bytes[releases'[v]]
    BY <1>1, <1>2, StayFacts, PublicationAssumption DEF Selectable, Artifacts
<1>3. ASSUME UNCHANGED <<releases, complete>> PROVE Artifacts'
    BY <1>2, <1>3 DEF Selectable, Artifacts
<1>4. ASSUME NEW r \in Runs, CreateRelease(r) PROVE Artifacts'
    <2>1. run[r].pc = "release" /\ run[r].version \in Versions /\ run[r].build \in Builds
        BY <1>4, RunKnows DEF CreateRelease, Selectable, Inv, Version, Build
    <2>2. /\ charts[run[r].version] = Bytes[run[r].build]
          /\ tags[run[r].version] = Source[run[r].build]
        BY <2>1 DEF Selectable, Established
    <2>3. /\ releases' = [releases EXCEPT ![run[r].version] =
                              IF @ = None THEN run[r].build ELSE @]
          /\ UNCHANGED <<charts, tags, complete>>
        BY <1>4 DEF CreateRelease, Version, Build
    <2> QED BY <1>1, <2>1, <2>2, <2>3, PublicationAssumption DEF Selectable, Artifacts
<1>5. ASSUME NEW r \in Runs, UploadAssets(r) PROVE Artifacts'
    <2>1. run[r].pc = "upload" /\ run[r].version \in Versions /\ run[r].build \in Builds
        BY <1>5, RunKnows DEF UploadAssets, Selectable, Inv, Version, Build
    <2>2. releases[run[r].version] # None
        BY <2>1, PublicationAssumption DEF Selectable, Established
    <2>3. complete' = complete \cup {run[r].version} /\ UNCHANGED <<charts, tags, releases>>
        BY <1>5 DEF UploadAssets, Version
    <2> QED BY <2>1, <2>2, <2>3 DEF Selectable, Artifacts
<1>6. ASSUME NEW r \in Runs, Step(r) \/ RunEnds(r) PROVE Artifacts'
    BY <1>3, <1>4, <1>5, <1>6 DEF Step, RunEnds, ChartStatus, PushChart, PullCharts,
       PushTag, VerifyRelease, FetchMain, LookForBranch, PushBranch, ListPulls,
       CreatePull, artifactVars
<1>7. ASSUME NEW r \in Runs, NEW v \in Versions,
             Dispatch(r, v) \/ \E b \in Builds : PromoteByHand(r, v, b)
      PROVE  Artifacts'
    BY <1>3, <1>7 DEF Dispatch, PromoteByHand, artifactVars
<1>8. ASSUME NEW v \in Versions,
             Merge(v, "manifest") \/ Merge(v, "catalog") \/ UpdateBranch(v)
      PROVE  Artifacts'
    BY <1>3, <1>8 DEF Merge, UpdateBranch, artifactVars
<1>9. CASE Maintain \/ UNCHANGED vars
    BY <1>3, <1>9 DEF Maintain, vars, artifactVars
<1> QED BY <1>6, <1>7, <1>8, <1>9 DEF Next

\* A branch is created with what a run drafted, and then only brought forward.
BranchStep(n) ==
    \/ branches'[n] \in {branches[n], None}
    \/ /\ branches[n] = None
       /\ \E r \in Runs : run[r].pc = "push branch" /\ run[r].name = n
                          /\ branches'[n] = run[r].commit
    \/ /\ branches[n] # None /\ branches'[n] = [branches[n] EXCEPT !.base = Len(main)]
       /\ \A e \in Tip.catalog : e.version # n[2]
LEMMA BranchSteps ==
    ASSUME TypeInv, [Next]_vars, NEW n \in Names PROVE BranchStep(n)
<1>1. branches \in [Names -> Commits \cup {None}]
    BY DEF TypeInv, TypeOK
<1>2. ASSUME UNCHANGED branches PROVE BranchStep(n)
    BY <1>2 DEF BranchStep
<1>3. ASSUME NEW r \in Runs, Step(r) \/ RunEnds(r) PROVE BranchStep(n)
    <2>1. CASE PushBranch(r)
        BY <1>1, <2>1, RunKnows DEF PushBranch, LeaseHolds, BranchStep
    <2> QED BY <1>2, <1>3, <2>1 DEF Step, RunEnds, ChartStatus, PushChart, PullCharts,
               PushTag, CreateRelease, UploadAssets, VerifyRelease, FetchMain,
               LookForBranch, ListPulls, CreatePull, repoVars
<1>4. ASSUME NEW r \in Runs, NEW v \in Versions,
             Dispatch(r, v) \/ \E b \in Builds : PromoteByHand(r, v, b)
      PROVE  BranchStep(n)
    BY <1>2, <1>4 DEF Dispatch, PromoteByHand, repoVars
<1>5. ASSUME NEW v \in Versions, NEW phase \in {"manifest", "catalog"}, Merge(v, phase)
      PROVE  BranchStep(n)
    <2>1. branches' \in {branches, [branches EXCEPT ![<<phase, v>>] = None]}
        BY <1>5 DEF Merge
    <2> QED BY <1>1, <2>1 DEF BranchStep
<1>6. ASSUME NEW v \in Versions, UpdateBranch(v) PROVE BranchStep(n)
    <2> DEFINE name == <<"catalog", v>>
    <2>1. name \in Names /\ name[2] = v
        BY DEF Names
    <2>2. /\ branches[name] # None /\ \A e \in Tip.catalog : e.version # v
          /\ branches' = [branches EXCEPT ![name] = [branches[name] EXCEPT !.base = Len(main)]]
        BY <1>6, <2>1 DEF UpdateBranch, TypeInv, Grounded
    <2> HIDE DEF name
    <2> QED BY <1>1, <2>1, <2>2 DEF BranchStep
<1>7. CASE Maintain
    BY <1>1, <1>7 DEF Maintain, repoVars, BranchStep
<1>8. CASE UNCHANGED vars
    BY <1>2, <1>8 DEF vars, repoVars
<1> QED BY <1>3, <1>4, <1>5, <1>6, <1>7, <1>8 DEF Next

LEMMA ProposalsStep == Selectable /\ [Next]_vars => Proposals'
<1> SUFFICES ASSUME Selectable, [Next]_vars, NEW n \in Names, NEW c, c = branches'[n],
                    c # None
             PROVE  Drafted(n, c)'
    BY DEF Proposals, Drafted, Cleared, Published
<1>1. branches \in [Names -> Commits \cup {None}]
    BY DEF Selectable, Inv, TypeInv, TypeOK
<1>2. CASE branches'[n] = branches[n]
    BY <1>1, <1>2, DraftedStays DEF Selectable, Proposals
<1>3. ASSUME NEW r \in Runs, run[r].pc = "push branch", run[r].name = n, c = run[r].commit
      PROVE  Drafted(n, c)'
    <2>1. c \in Commits
        BY <1>3, RunKnows DEF Selectable, Inv
    <2>2. Drafted(n, c)
        BY <1>3 DEF Selectable, Established
    <2> QED BY <2>1, <2>2, DraftedStays DEF Selectable
<1>4. CASE /\ branches[n] # None /\ branches'[n] = [branches[n] EXCEPT !.base = Len(main)]
           /\ \A e \in Tip.catalog : e.version # n[2]
    <2>1. Len(main) \in Nat /\ Len(main) > 0 /\ branches[n] \in Commits
        BY <1>1, <1>4, TipType DEF Selectable, Inv
    <2>2. c \in Commits /\ c.base = Len(main) /\ c.build = branches[n].build
          /\ c.at = branches[n].at
        BY <1>4, <2>1 DEF Commits
    <2>3. Drafted(n, branches[n])
        BY <1>4 DEF Selectable, Proposals
    <2>4. Drafted(n, c)
        BY <1>4, <2>1, <2>2, <2>3 DEF Drafted, Tip
    <2> QED BY <2>2, <2>4, DraftedStays DEF Selectable
<1> QED BY <1>2, <1>3, <1>4, BranchSteps DEF BranchStep, Selectable, Inv

\* main retains a manifest from the commit that since names on.
LEMMA RetainKeeps ==
    ASSUME Selectable, [Next]_vars, NEW v \in Versions, NEW b \in Builds, main' = Retain(v, b)
    PROVE  Retained' /\ Tip'.catalog = Tip.catalog
<1>1. Tip \in MainCommits /\ Len(main) \in Nat /\ Len(main) > 0
    BY TipType DEF Selectable, Inv
<1> PICK m : m = [Tip EXCEPT !.manifest[v] = b, !.since[v] = Len(main) + 1]
    OBVIOUS
<1>2. /\ m.catalog = Tip.catalog
      /\ \A w \in Versions : /\ m.manifest[w] = IF w = v THEN b ELSE Tip.manifest[w]
                             /\ m.since[w] = IF w = v THEN Len(main) + 1 ELSE Tip.since[w]
    BY <1>1 DEF MainCommits
<1>3. /\ Len(main') = Len(main) + 1 /\ Tip' = m
      /\ \A i \in 1 .. Len(main) : main'[i] = main[i]
    BY Appended DEF Retain, Selectable, Inv
<1>4. main'[Len(main) + 1] = m
    BY <1>3 DEF Tip
<1>5. ASSUME NEW w \in Versions, Tip'.manifest[w] # None
      PROVE  /\ Tip'.since[w] \in 1 .. Len(main')
             /\ main'[Tip'.since[w]].manifest[w] = Tip'.manifest[w]
    <2>1. CASE w = v
        <3>1. Tip'.since[w] = Len(main) + 1 /\ main'[Len(main) + 1] = Tip'
            BY <1>2, <1>3, <1>4, <2>1
        <3>2. Len(main) + 1 \in 1 .. Len(main')
            BY <1>1, <1>3
        <3>3. main'[Tip'.since[w]] = Tip'
            BY <3>1
        <3> QED BY <3>1, <3>2, <3>3
    <2>2. CASE w # v
        <3>1. Tip.since[w] \in 1 .. Len(main) /\ main[Tip.since[w]].manifest[w] = Tip.manifest[w]
            BY <1>2, <1>3, <1>5, <2>2 DEF Selectable, Retained
        <3>2. Tip'.since[w] = Tip.since[w] /\ Tip'.manifest[w] = Tip.manifest[w]
            BY <1>2, <1>3, <2>2
        <3> QED BY <1>1, <1>3, <3>1, <3>2
    <2> QED BY <2>1, <2>2
<1> QED BY <1>2, <1>3, <1>5 DEF Retained

LEMMA TipKeeps ==
    ASSUME Selectable, NEW m, main' = Append(main, m), m.manifest = Tip.manifest,
           m.since = Tip.since
    PROVE  Retained' /\ Tip' = m
<1>1. Len(main) \in Nat
    BY TipType DEF Selectable, Inv
<1>2. /\ Len(main') = Len(main) + 1 /\ Tip' = m
      /\ \A i \in 1 .. Len(main) : main'[i] = main[i]
    BY Appended DEF Selectable, Inv
<1> QED BY <1>1, <1>2 DEF Selectable, Retained

\* One entry of the catalog.
Sound(e) == /\ e.commit \in 1 .. Len(main) /\ main[e.commit].manifest[e.version] = e.build
            /\ Cleared(e.version, e.build)
LEMMA SoundStays ==
    ASSUME Inv, [Next]_vars, NEW e \in Entries, Sound(e) PROVE Sound(e)'
<1>1. e.version \in Versions /\ e.build \in Builds /\ e.commit \in Nat
    BY DEF Entries
<1>2. /\ Len(main') >= Len(main) /\ \A i \in 1 .. Len(main) : main'[i] = main[i]
      /\ Len(main) \in Nat /\ Len(main') \in Nat
    BY MainGrows, TipType, NextType DEF Inv, TypeInv, TypeOK
<1>3. Cleared(e.version, e.build)'
    BY <1>1, ClearedStays DEF Sound
<1> QED BY <1>1, <1>2, <1>3 DEF Sound

\* A catalog that stays, or grows by an entry of a version it does not have yet.
LEMMA CatalogKept ==
    ASSUME Selectable, [Next]_vars, Tip'.catalog = Tip.catalog PROVE CatalogSound'
<1>1. Tip.catalog \subseteq Entries
    BY TipType DEF MainCommits, Selectable, Inv
<1>2. ASSUME NEW e \in Tip.catalog
      PROVE  Sound(e)' /\ \A f \in Tip.catalog : f.version = e.version => f = e
    BY <1>1, SoundStays DEF Selectable, CatalogSound, Sound, Cleared, Published, Released
<1> QED BY <1>2 DEF CatalogSound, Sound, Cleared, Published, Released

LEMMA CatalogGrows ==
    ASSUME Selectable, [Next]_vars, NEW e \in Entries, Tip'.catalog = Tip.catalog \cup {e},
           \A f \in Tip.catalog : f.version # e.version, Sound(e)
    PROVE  CatalogSound'
<1>1. Tip.catalog \subseteq Entries
    BY TipType DEF MainCommits, Selectable, Inv
<1>2. ASSUME NEW f \in Tip.catalog
      PROVE  Sound(f)' /\ \A g \in Tip'.catalog : g.version = f.version => g = f
    BY <1>1, SoundStays DEF Selectable, CatalogSound, Sound, Cleared, Published, Released
<1>3. Sound(e)'
    BY SoundStays DEF Selectable
<1> QED BY <1>2, <1>3 DEF CatalogSound, Sound, Cleared, Published, Released

\* A merge needs the catalog as the branch's base has it, which does not have
\* the version; a conflict brings the branch forward only while main has it not.
LEMMA MergeCatalog ==
    ASSUME Selectable, [Next]_vars, NEW v \in Versions, Merge(v, "catalog")
    PROVE  Retained' /\ CatalogSound'
<1> DEFINE name == <<"catalog", v>>
<1> PICK c : c = branches[name]
    OBVIOUS
<1> PICK m : m = [Tip EXCEPT !.catalog = @ \cup {Entry(v, c)}]
    OBVIOUS
<1>1. name \in Names /\ name[1] = "catalog" /\ name[2] = v
    BY DEF Names
<1>2. /\ [name |-> name, state |-> "OPEN"] \in pulls /\ Tip.catalog = main[c.base].catalog
      /\ main' = Append(main, m)
    BY DEF Merge
<1>3. c \in Commits /\ Drafted(name, c)
    BY <1>1, <1>2 DEF Selectable, Proposals, Inv, TypeInv, TypeOK, Grounded
<1>4. /\ Entry(v, c) \in Entries /\ Entry(v, c).version = v /\ Entry(v, c).build = c.build
      /\ Entry(v, c).commit = c.at
    BY <1>3 DEF Entry, Entries, Commits
<1>5. Tip \in MainCommits
    BY TipType DEF Selectable, Inv
<1>6. /\ m.manifest = Tip.manifest /\ m.since = Tip.since
      /\ m.catalog = Tip.catalog \cup {Entry(v, c)}
    BY <1>5 DEF MainCommits
<1>7. Retained' /\ Tip' = m
    BY <1>2, <1>6, TipKeeps
<1> PICK e : e = Entry(v, c)
    OBVIOUS
<1>8. Sound(e) /\ \A f \in Tip.catalog : f.version # e.version
    BY <1>1, <1>2, <1>3, <1>4 DEF Sound, Drafted
<1>9. Tip'.catalog = Tip.catalog \cup {e} /\ e \in Entries
    BY <1>4, <1>6, <1>7
<1> QED BY <1>7, <1>8, <1>9, CatalogGrows

LEMMA MainKept ==
    ASSUME Selectable, [Next]_vars, UNCHANGED main PROVE Retained' /\ CatalogSound'
<1>1. Tip' = Tip
    BY DEF Tip
<1> QED BY <1>1, CatalogKept DEF Selectable, Retained

LEMMA CatalogStep == Selectable /\ [Next]_vars => Retained' /\ CatalogSound'
<1> SUFFICES ASSUME Selectable, [Next]_vars PROVE Retained' /\ CatalogSound'
    OBVIOUS
<1>1. ASSUME NEW r \in Runs, Step(r) \/ RunEnds(r) PROVE UNCHANGED main
    BY <1>1 DEF Step, RunEnds, ChartStatus, PushChart, PullCharts, PushTag, CreateRelease,
       UploadAssets, VerifyRelease, FetchMain, LookForBranch, PushBranch, ListPulls,
       CreatePull, repoVars
<1>2. ASSUME NEW r \in Runs, NEW v \in Versions,
             Dispatch(r, v) \/ \E b \in Builds : PromoteByHand(r, v, b)
      PROVE  UNCHANGED main
    BY <1>2 DEF Dispatch, PromoteByHand, repoVars
<1>3. ASSUME NEW v \in Versions, Merge(v, "manifest") PROVE Retained' /\ CatalogSound'
    <2>1. <<"manifest", v>> \in Names
        BY DEF Names
    <2>2. branches[<<"manifest", v>>].build \in Builds
        BY <1>3, <2>1 DEF Merge, Selectable, Inv, TypeInv, TypeOK, Grounded, Commits
    <2>3. main' = Retain(v, branches[<<"manifest", v>>].build)
        BY <1>3 DEF Merge
    <2> QED BY <2>2, <2>3, RetainKeeps, CatalogKept
<1>4. ASSUME NEW v \in Versions, UpdateBranch(v) PROVE UNCHANGED main
    BY <1>4 DEF UpdateBranch
<1>5. CASE Maintain
    <2>1. CASE UNCHANGED main
        BY <2>1, MainKept
    <2>2. ASSUME NEW v \in Versions, NEW b \in Builds, main' = Retain(v, b)
          PROVE  Retained' /\ CatalogSound'
        BY <2>2, RetainKeeps, CatalogKept
    <2>3. CASE main' = Append(main, Tip)
        BY <2>3, TipKeeps, CatalogKept
    <2> QED BY <1>5, <2>1, <2>2, <2>3 DEF Maintain, repoVars
<1>6. CASE UNCHANGED vars
    BY <1>6, MainKept DEF vars, repoVars
<1> QED BY <1>1, <1>2, <1>3, <1>4, <1>5, <1>6, MainKept, MergeCatalog DEF Next

LEMMA InitSelectable == Init => Selectable
<1> SUFFICES ASSUME Init PROVE Selectable
    OBVIOUS
<1>1. Tip = Bare
    BY DEF Init, Tip
<1>2. Retained /\ CatalogSound
    BY <1>1 DEF Retained, CatalogSound, Bare
<1>3. Artifacts /\ Proposals /\ \A r \in Runs : Established(run[r])
    BY DEF Init, Artifacts, Proposals, Established, NoRun
<1> QED BY <1>2, <1>3, InitInv DEF Selectable

LEMMA NextSelectable == Selectable /\ [Next]_vars => Selectable'
BY NextInv, ArtifactsStep, ProposalsStep, CatalogStep, RunsEstablished DEF Selectable

\* The stable catalog selects at most one build of a version, whose manifest is
\* on main and, unless somebody promoted that build by hand before it was
\* published, whose charts, tag and GitHub release are published in full: across
\* interrupted and repeated runs, branches reused or brought forward, manifests
\* that maintainers commit, and other builds promoted by hand.
THEOREM CatalogIsSound == Spec => []CatalogSound
<1>1. Selectable => CatalogSound
    BY DEF Selectable
<1> QED BY <1>1, InitSelectable, NextSelectable, PTL DEF Spec

\* Nobody overwrites a promotion branch: it keeps its content until it is deleted,
\* and moves only to a newer main.
THEOREM BranchesKept == Spec => BranchKept
<1> DEFINE Kept ==
        \A n \in Names : (branches[n] # None /\ branches'[n] # None) =>
            /\ branches'[n].build = branches[n].build /\ branches'[n].at = branches[n].at
            /\ branches'[n].base >= branches[n].base
<1>1. ASSUME Selectable, [Next]_vars PROVE [Kept]_vars
    <2> SUFFICES ASSUME NEW n \in Names, branches[n] # None, branches'[n] # None
                 PROVE  /\ branches'[n].build = branches[n].build
                        /\ branches'[n].at = branches[n].at
                        /\ branches'[n].base >= branches[n].base
        OBVIOUS
    <2>1. branches[n] \in Commits /\ Drafted(n, branches[n]) /\ Len(main) \in Nat
        BY <1>1, TipType DEF Selectable, Proposals, Inv, TypeInv, TypeOK
    <2>2. branches'[n] \in {branches[n], [branches[n] EXCEPT !.base = Len(main)]}
        BY BranchSteps, <1>1 DEF BranchStep, Selectable, Inv
    <2> QED BY <2>1, <2>2 DEF Commits, Drafted
<1>2. Selectable /\ [Next]_vars => [Kept]_vars
    BY <1>1
<1> QED BY <1>2, InitSelectable, NextSelectable, PTL DEF Spec, BranchKept

=============================================================================
