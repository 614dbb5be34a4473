----------------------------- MODULE Publication -----------------------------
(***************************************************************************)
(* Publication and promotion of accepted releases: the workflow            *)
(* .github/workflows/publish.yml with pig_supervisor/publication.py and    *)
(* promotion.py.  A run reads the reviewed evidence for a version, pushes  *)
(* its charts, tag and GitHub release, and opens one of two pull requests: *)
(* the first retains the manifest on main, the second, opened by a later   *)
(* run, selects it in the stable catalog.  A run may end at any step and   *)
(* be dispatched again; promote-draft is also run by hand, and then with   *)
(* any manifest file of the version.                                       *)
(*                                                                         *)
(* Abstracted: what evidence fixes (source commit, images, rollbackTo) to  *)
(* a build, whose manifest, archive and checksums are functions of it, as  *)
(* are its source and the bytes of its charts; builds may share these.     *)
(* Images, capabilities and the fourteen days of the evidence are checks   *)
(* that may fail (End).  Squashed commits of main are numbered.            *)
(*                                                                         *)
(* An operator whose name extends that of the one after it is a mutant.    *)
(***************************************************************************)
EXTENDS Naturals, Sequences, FiniteSets

CONSTANTS
    Versions, Builds, Runs, None,
    Charts,       \* the two charts
    Source,       \* [Builds -> source commits]
    Bytes,        \* [Builds -> [Charts -> chart packages]]
    Accepted,     \* [Versions -> Builds], the evidence on main at the start
    MaxEdits,     \* bound: what maintainers do beside merging
    MaxFaults,    \* bound: runs that end early
    MaxByHand,    \* bound: unpublished manifests promoted by hand
    MaxEvents     \* bound: these and the edits together

Entries == [version : Versions, build : Builds, commit : Nat]
Names == {"manifest", "catalog"} \X Versions
\* A branch adds a manifest, or an entry whose URL names commit "at", to main
\* as of commit "base".
Commits == [base : Nat, build : Builds, at : Nat]

ASSUME PublicationAssumption ==
    /\ None \notin Builds /\ None \notin Commits /\ Accepted \in [Versions -> Builds]
    /\ \A b \in Builds : Source[b] # None /\ \A c \in Charts : Bytes[b][c] # None
    /\ MaxEdits \in Nat /\ MaxFaults \in Nat
    /\ MaxByHand \in Nat /\ MaxEvents \in Nat

VARIABLES
    evidence,    \* releases/acceptance on main: the build accepted for a version
    main,        \* commits of main: manifests retained, catalog entries
    charts,      \* the registry: bytes of each version's charts
    tags,        \* source commit a version's tag points to
    releases,    \* build of a version's GitHub release
    complete,    \* versions whose GitHub release has all its assets
    branches,    \* head of each promotion branch
    pulls,       \* pull requests
    run,         \* the runs, and what each has read
    edits, faults,
    byHand       \* history: versions and builds promoted by hand when their
                 \* GitHub release was not there in full

repoVars == <<main, branches, pulls>>
artifactVars == <<charts, tags, releases, complete>>
boundVars == <<edits, faults>>
vars == <<evidence, repoVars, artifactVars, run, boundVars, byHand>>

NoRun == [pc |-> "idle", workflow |-> FALSE, version |-> None, build |-> None,
          tag |-> None, needed |-> {}, head |-> 0, name |-> None,
          promoted |-> FALSE, commit |-> None]
Tip == main[Len(main)]
\* A commit of main; since[v], what git log -1 says of the manifest's path, is
\* the commit that retained it.
Bare == [manifest |-> [v \in Versions |-> None], since |-> [v \in Versions |-> 0],
         catalog |-> {}]
Retain(v, b) ==
    Append(main, [Tip EXCEPT !.manifest[v] = b, !.since[v] = Len(main) + 1])

Init ==
    /\ evidence = Accepted
    /\ main = <<Bare>>
    /\ charts = [v \in Versions |-> [c \in Charts |-> None]]
    /\ tags = [v \in Versions |-> None]
    /\ releases = [v \in Versions |-> None] /\ complete = {}
    /\ branches = [n \in Names |-> None] /\ pulls = {}
    /\ run = [r \in Runs |-> NoRun]
    /\ edits = 0 /\ faults = 0 /\ byHand = {}

MayEdit == edits < MaxEdits /\ edits + Cardinality(byHand) < MaxEvents
MayPromote(v, b) ==
    LET hands == Cardinality(byHand \cup {<<v, b>>})
    IN  hands <= MaxByHand /\ edits + hands <= MaxEvents

Goto(r, pc) == run' = [run EXCEPT ![r].pc = pc]
End(r) == run' = [run EXCEPT ![r] = NoRun]
Require(r, condition, pc) == IF condition THEN Goto(r, pc) ELSE End(r)
Build(r) == run[r].build
Version(r) == run[r].version

-----------------------------------------------------------------------------
(* The artifacts of a version.                                             *)

\* The concurrency group admits one run of the workflow.
MayDispatchBeside == TRUE
MayDispatch == \A r \in Runs : ~run[r].workflow

\* The checkout brings the evidence and the tags; a tag elsewhere ends the run.
Dispatch(r, v) ==
    /\ run[r].pc = "idle" /\ MayDispatch
    /\ tags[v] \in {None, Source[evidence[v]]}
    /\ run' = [run EXCEPT ![r] = [NoRun EXCEPT !.pc = "status", !.workflow = TRUE,
                  !.version = v, !.build = evidence[v], !.tag = tags[v]]]
    /\ UNCHANGED <<evidence, repoVars, artifactVars, boundVars, byHand>>

\* chart_publication_needed: absent charts, and none with other bytes.
ChartStatus(r) ==
    LET v == Version(r)  needed == {c \in Charts : charts[v][c] = None}
    IN  /\ run[r].pc = "status"
        /\ IF \A c \in Charts \ needed : charts[v][c] = Bytes[Build(r)][c]
           THEN run' = [run EXCEPT ![r].pc = "push", ![r].needed = needed]
           ELSE End(r)
        /\ UNCHANGED <<evidence, repoVars, artifactVars, boundVars, byHand>>

\* helm push replaces whatever the version's reference points to.
PushChart(r) ==
    /\ run[r].pc = "push"
    /\ \E c \in run[r].needed :
          /\ charts' = [charts EXCEPT ![Version(r)][c] = Bytes[Build(r)][c]]
          /\ run' = [run EXCEPT ![r].needed = @ \ {c}]
    /\ UNCHANGED <<evidence, repoVars, tags, releases, complete, boundVars, byHand>>

\* The anonymous pulls and assemble compare what the registry serves.
PullCharts(r) ==
    /\ run[r].pc = "push" /\ run[r].needed = {}
    /\ Require(r, charts[Version(r)] = Bytes[Build(r)], "tag")
    /\ UNCHANGED <<evidence, repoVars, artifactVars, boundVars, byHand>>

\* A tag that was absent at checkout is pushed; git never moves one.
PushTag(r) ==
    LET v == Version(r)  source == Source[Build(r)]
    IN  /\ run[r].pc = "tag"
        /\ tags' = [tags EXCEPT ![v] = IF @ = None THEN source ELSE @]
        /\ Require(r, run[r].tag # None \/ tags[v] \in {None, source}, "release")
        /\ UNCHANGED <<evidence, repoVars, charts, releases, complete, boundVars, byHand>>

\* An absent GitHub release is created, then its assets are uploaded.
CreateRelease(r) ==
    LET v == Version(r)
    IN  /\ run[r].pc = "release"
        /\ releases' = [releases EXCEPT ![v] = IF @ = None THEN Build(r) ELSE @]
        /\ Goto(r, IF releases[v] = None THEN "upload" ELSE "download")
        /\ UNCHANGED <<evidence, repoVars, charts, tags, complete, boundVars, byHand>>
UploadAssets(r) ==
    /\ run[r].pc = "upload"
    /\ complete' = complete \cup {Version(r)}
    /\ Goto(r, "download")
    /\ UNCHANGED <<evidence, repoVars, charts, tags, releases, boundVars, byHand>>

\* Every asset is downloaded anonymously and compared.
Released(v, b) == v \in complete /\ releases[v] = b
VerifyRelease(r) ==
    /\ run[r].pc = "download"
    /\ Require(r, Released(Version(r), Build(r)), "fetch")
    /\ UNCHANGED <<evidence, repoVars, artifactVars, boundVars, byHand>>

-----------------------------------------------------------------------------
(* promote_draft.                                                          *)

\* By hand, with a manifest of the version: that of the published GitHub release
\* or, as nothing compares it with one, any other.
PromoteByHand(r, v, b) ==
    /\ run[r].pc = "idle"
    /\ Released(v, b) \/ MayPromote(v, b)
    /\ run' = [run EXCEPT ![r] = [NoRun EXCEPT !.pc = "fetch", !.version = v, !.build = b]]
    /\ byHand' = IF Released(v, b) THEN byHand ELSE byHand \cup {<<v, b>>}
    /\ UNCHANGED <<evidence, repoVars, artifactVars, boundVars>>

CatalogPhaseAlways(m, v) == TRUE
CatalogPhase(m, v) == m.manifest[v] # None

\* verify_manifest of origin/main, if it retains a manifest.
ManifestVerifiedNever(m, v, b) == TRUE
ManifestVerified(m, v, b) == m.manifest[v] \in {None, b}

\* verify_catalog: one entry, of the manifest on main, at a commit that has it.
EntryVerified(catalog, head, v, b) ==
    \E e \in catalog :
        /\ {f \in catalog : f.version = v} = {e}
        /\ e.build = b /\ main[head].manifest[v] = b
        /\ e.commit <= head /\ main[e.commit].manifest[v] = b

FetchMain(r) ==
    LET v == Version(r)  b == Build(r)  m == Tip
        promoted == \E e \in m.catalog : e.version = v
        select == CatalogPhase(m, v)
        commit == [base |-> Len(main),
                   build |-> IF select THEN m.manifest[v] ELSE b,
                   at |-> IF select THEN m.since[v] ELSE 0]
    IN  /\ run[r].pc = "fetch"
        /\ IF /\ ManifestVerified(m, v, b)
              /\ promoted => EntryVerified(m.catalog, Len(main), v, b)
           THEN run' = [run EXCEPT ![r].pc = IF promoted THEN "list" ELSE "look",
                           ![r].head = Len(main), ![r].promoted = promoted,
                           ![r].name = <<IF select THEN "catalog" ELSE "manifest", v>>,
                           ![r].commit = commit]
           ELSE End(r)
        /\ UNCHANGED <<evidence, repoVars, artifactVars, boundVars, byHand>>

\* An existing branch is reused if it holds this promotion and nothing else,
\* compared with main as it was fetched.
ReusableNever(r, commit) == FALSE
Reusable(r, commit) ==
    /\ commit.base <= run[r].head
    /\ commit.build = Build(r)
    /\ run[r].name[1] = "catalog" =>
          /\ commit.at <= run[r].head
          /\ main[commit.at].manifest[Version(r)] = Build(r)
          /\ main[commit.base].manifest[Version(r)] = Build(r)

LookForBranch(r) ==
    LET found == branches[run[r].name]
    IN  /\ run[r].pc = "look"
        /\ IF found = None THEN Goto(r, "push branch")
           ELSE IF Reusable(r, found)
           THEN run' = [run EXCEPT ![r].pc = "list", ![r].commit = found]
           ELSE End(r)
        /\ UNCHANGED <<evidence, repoVars, artifactVars, boundVars, byHand>>

\* --force-with-lease on an absent ref: the push creates the branch or fails.
LeaseHoldsAny(name) == TRUE
LeaseHolds(name) == branches[name] = None
PushBranch(r) ==
    /\ run[r].pc = "push branch"
    /\ branches' = IF LeaseHolds(run[r].name)
                   THEN [branches EXCEPT ![run[r].name] = run[r].commit] ELSE branches
    /\ Require(r, LeaseHolds(run[r].name), "list")
    /\ UNCHANGED <<evidence, main, pulls, artifactVars, boundVars, byHand>>

\* Its own open pull request, or the merged one of a promoted version, is the
\* answer; any other needs an operator.
ListPulls(r) ==
    /\ run[r].pc = "list"
    /\ Require(r, ~run[r].promoted /\ \A p \in pulls : p.name # run[r].name, "create")
    /\ UNCHANGED <<evidence, repoVars, artifactVars, boundVars, byHand>>

CanOpen(name) ==
    /\ branches[name] # None
    /\ [name |-> name, state |-> "OPEN"] \notin pulls
CreatePull(r) ==
    LET name == run[r].name
    IN  /\ run[r].pc = "create"
        /\ pulls' = IF CanOpen(name) THEN pulls \cup {[name |-> name, state |-> "OPEN"]} ELSE pulls
        /\ End(r)
        /\ UNCHANGED <<evidence, main, branches, artifactVars, boundVars, byHand>>

\* A check outside this model fails, a call fails or the runner is lost.
RunEnds(r) ==
    /\ run[r].pc # "idle" /\ faults < MaxFaults
    /\ End(r)
    /\ faults' = faults + 1
    /\ UNCHANGED <<evidence, repoVars, artifactVars, edits, byHand>>

-----------------------------------------------------------------------------
(* GitHub and the maintainers (external).                                  *)
Entry(v, commit) == [version |-> v, build |-> commit.build, commit |-> commit.at]
Closing(name, state) ==
    pulls' = (pulls \ {[name |-> name, state |-> "OPEN"]}) \cup {[name |-> name, state |-> state]}

\* A merge needs the lines the branch changes to be as they were at its base;
\* the branch may be deleted with it.
Merge(v, phase) ==
    LET name == <<phase, v>>  commit == branches[name]  m == Tip
    IN  /\ [name |-> name, state |-> "OPEN"] \in pulls
        /\ CASE phase = "manifest" -> m.manifest[v] = None
             [] phase = "catalog" -> /\ m.catalog = main[commit.base].catalog
                                     /\ Entry(v, commit) \notin m.catalog
        /\ main' = IF phase = "manifest" THEN Retain(v, commit.build)
                   ELSE Append(main, [m EXCEPT !.catalog = @ \cup {Entry(v, commit)}])
        /\ Closing(name, "MERGED")
        /\ branches' \in {branches, [branches EXCEPT ![name] = None]}
        /\ UNCHANGED <<evidence, artifactVars, run, boundVars, byHand>>

\* A conflict is resolved by merging main into the branch.
UpdateBranch(v) ==
    LET name == <<"catalog", v>>  commit == branches[name]
    IN  /\ [name |-> name, state |-> "OPEN"] \in pulls
        /\ Tip.catalog # main[commit.base].catalog
        /\ \A e \in Tip.catalog : e.version # v
        /\ branches' = [branches EXCEPT ![name].base = Len(main)]
        /\ UNCHANGED <<evidence, main, pulls, artifactVars, run, boundVars, byHand>>

\* A maintainer closes a pull request, opens one, amends the evidence, commits
\* another manifest or something else, or deletes a branch nobody proposes.
Maintain ==
    /\ MayEdit /\ edits' = edits + 1
    /\ \/ \E name \in Names :
             /\ [name |-> name, state |-> "OPEN"] \in pulls
             /\ Closing(name, "CLOSED")
             /\ UNCHANGED <<evidence, main, branches>>
       \/ \E name \in Names :
             /\ CanOpen(name)
             /\ pulls' = pulls \cup {[name |-> name, state |-> "OPEN"]}
             /\ UNCHANGED <<evidence, main, branches>>
       \/ \E v \in Versions, b \in Builds :
             /\ evidence[v] # b /\ evidence' = [evidence EXCEPT ![v] = b]
             /\ UNCHANGED repoVars
       \/ \E v \in Versions, b \in Builds :
             /\ Tip.manifest[v] = None
             /\ main' = Retain(v, b)
             /\ UNCHANGED <<evidence, branches, pulls>>
       \/ /\ main' = Append(main, Tip)
          /\ UNCHANGED <<evidence, branches, pulls>>
       \/ \E name \in Names :
             /\ branches[name] # None /\ [name |-> name, state |-> "OPEN"] \notin pulls
             /\ branches' = [branches EXCEPT ![name] = None]
             /\ UNCHANGED <<evidence, main, pulls>>
    /\ UNCHANGED <<artifactVars, run, faults, byHand>>

Step(r) ==
    \/ ChartStatus(r) \/ PushChart(r) \/ PullCharts(r) \/ PushTag(r)
    \/ CreateRelease(r) \/ UploadAssets(r) \/ VerifyRelease(r)
    \/ FetchMain(r) \/ LookForBranch(r) \/ PushBranch(r) \/ ListPulls(r) \/ CreatePull(r)
Next ==
    \/ \E r \in Runs : \/ Step(r) \/ RunEnds(r)
                       \/ \E v \in Versions : Dispatch(r, v)
                       \/ \E v \in Versions, b \in Builds : PromoteByHand(r, v, b)
    \/ \E v \in Versions : Merge(v, "manifest") \/ Merge(v, "catalog") \/ UpdateBranch(v)
    \/ Maintain
Spec == Init /\ [][Next]_vars

\* A run makes its steps; maintainers rerun the publication of each version
\* and merge what it proposes, resolving conflicts.
FairSpec ==
    /\ Spec
    /\ \A r \in Runs : WF_vars(Step(r))
    /\ \A v \in Versions :
          /\ SF_vars(\E r \in Runs : Dispatch(r, v))
          /\ WF_vars(UpdateBranch(v)) /\ WF_vars(Merge(v, "manifest"))
          /\ WF_vars(Merge(v, "catalog"))

-----------------------------------------------------------------------------
(* Correctness.                                                            *)

Sources == {Source[b] : b \in Builds}
Packages == {Bytes[b][c] : b \in Builds, c \in Charts}
MainCommits == [manifest : [Versions -> Builds \cup {None}], since : [Versions -> Nat],
                catalog : SUBSET Entries]
Pcs == {"idle", "status", "push", "tag", "release", "upload", "download",
        "fetch", "look", "push branch", "list", "create"}
RunStates ==
    [pc : Pcs, workflow : BOOLEAN, version : Versions \cup {None},
     build : Builds \cup {None}, tag : Sources \cup {None},
     needed : SUBSET Charts, head : Nat, name : Names \cup {None},
     promoted : BOOLEAN, commit : Commits \cup {None}]
Pulls == [name : Names, state : {"OPEN", "MERGED", "CLOSED"}]

\* Every variable keeps its type.
TypeOK ==
    /\ evidence \in [Versions -> Builds] /\ main \in Seq(MainCommits)
    /\ charts \in [Versions -> [Charts -> Packages \cup {None}]]
    /\ tags \in [Versions -> Sources \cup {None}]
    /\ releases \in [Versions -> Builds \cup {None}] /\ complete \subseteq Versions
    /\ branches \in [Names -> Commits \cup {None}] /\ pulls \subseteq Pulls
    /\ run \in [Runs -> RunStates] /\ edits \in Nat /\ faults \in Nat
    /\ byHand \subseteq Versions \X Builds

Stays ==
    \A v \in Versions :
        /\ \A c \in Charts : charts[v][c] # None => charts'[v][c] = charts[v][c]
        /\ tags[v] # None => tags'[v] = tags[v]
        /\ releases[v] # None => releases'[v] = releases[v]
\* RELEASING.md, "without overwriting already published bytes": once published,
\* a version's charts, tag and GitHub release never change, whatever runs
\* beside, after or instead of the one that published them.
PublishedStays == [][Stays]_vars

\* What the stable catalog selects exists and is of one build: a single entry
\* for the version, whose commit on main retains the manifest.  Its GitHub
\* release, tag and charts are published in full and are those of that build,
\* unless somebody promoted the manifest by hand before they were (RELEASING.md
\* has the workflow promote what it has published; promote-draft takes any
\* manifest of the version).
CatalogSound ==
    \A e \in Tip.catalog :
        LET v == e.version  b == e.build IN
        /\ \A f \in Tip.catalog : f.version = v => f = e
        /\ e.commit \in 1 .. Len(main) /\ main[e.commit].manifest[v] = b
        /\ <<v, b>> \notin byHand =>
              Released(v, b) /\ tags[v] = Source[b] /\ charts[v] = Bytes[b]

\* "An absent-ref lease rejects concurrent creation without rewriting it"
\* (promotion.py:92): a promotion branch, once pushed, keeps its content and is
\* only ever brought forward to a newer main.
BranchKept ==
    [][\A n \in Names :
          (branches[n] # None /\ branches'[n] # None) =>
              /\ branches'[n].build = branches[n].build /\ branches'[n].at = branches[n].at
              /\ branches'[n].base >= branches[n].base]_vars

\* "If PR creation is interrupted after a branch push, rerun publication"
\* (RELEASING.md): with the runs repeated and their pull requests merged, every
\* version ends up in the catalog, whichever step was interrupted.  Two things
\* fail closed for good: a GitHub release left without its assets, and another
\* build's manifest promoted by hand.
Promoted ==
    \A v \in Versions :
        <>(\/ \E e \in Tip.catalog : e.version = v
           \/ releases[v] # None /\ v \notin complete /\ \A r \in Runs : run[r].pc # "upload"
           \/ \E b \in Builds \ {evidence[v]} : <<v, b>> \in byHand)
=============================================================================
