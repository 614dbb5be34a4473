------------------------------ MODULE CRDMerge ------------------------------
(***************************************************************************)
(* The one PIGDeployment CRD of a cluster, which the supervisors of all    *)
(* watched namespaces extend with what their next release needs before     *)
(* they replace their own image: selfUpdate of controller.go and MergeCRD, *)
(* AdditiveCRD of crd.go.                                                  *)
(*                                                                         *)
(* A supervisor reads the CRD, merges its release's into it and patches    *)
(* the result as a whole, guarded by the resourceVersion it read.  Other   *)
(* namespaces' supervisors do so at the same time; a patch may arrive      *)
(* late, after its sender gave up or restarted.                            *)
(*                                                                         *)
(* A schema is a function from the paths of its properties to whatever     *)
(* else the schema at that path says (its type, items, required names, not *)
(* its description); a path comes with those above it.  SchemaTree has the *)
(* recursive operators of the code, MCCRDMerge compares the two.  Of the   *)
(* fields outside the versions, conversion stands for the three that       *)
(* AdditiveCRD gives a default, scope for those it does not and for the    *)
(* kind and name that selfUpdate requires.  A transition is reduced to the *)
(* release that reaches the phase supervisor.                              *)
(*                                                                         *)
(* An operator whose name extends another's is that operator with a bug.   *)
(***************************************************************************)
EXTENDS Naturals

CONSTANTS
    Namespaces,     \* watched namespaces, each with its supervisor
    Releases,
    Paths,          \* paths of properties, that of the root included
    Attrs,          \* what a schema or a version may say besides its properties
    MaxVersions,    \* bound: versions of a CRD
    FirstCRD,       \* the CRD installed by the bootstrap
    FirstRelease,   \* the release installed in every namespace at the start
    Publications,   \* the CRDs the releases may carry
    Bootstraps,     \* CRDs an operator may install
    MaxEdits,       \* bound: new targets and the operator's changes of the CRD
    MaxFaults       \* bound: passes that end early

IsSchema(s) == DOMAIN s \subseteq Paths /\ s \in [DOMAIN s -> Attrs]
IsCRD(c) ==
    /\ c \in [conversion : {"", "None", "Webhook"}, scope : {"Namespaced", "Cluster"},
              versions : {c.versions}]
    /\ \E k \in 0 .. MaxVersions : c.versions \in [1 .. k -> {c.versions[i] : i \in 1 .. k}]
    /\ \A i \in DOMAIN c.versions :
          /\ c.versions[i] \in [attrs : Attrs, schema : {c.versions[i].schema}]
          /\ IsSchema(c.versions[i].schema)
\* A release without a CRD, and a merge that is refused.
NoCRD == [conversion |-> "", scope |-> "", versions |-> <<>>]

ASSUME CRDAssumption ==
    /\ MaxVersions \in Nat /\ MaxEdits \in Nat /\ MaxFaults \in Nat
    /\ IsCRD(FirstCRD) /\ \A c \in Bootstraps : IsCRD(c)
    /\ FirstRelease \in Releases
    /\ \A p \in Publications : /\ p \in [Releases -> {p[r] : r \in Releases}]
                                 /\ \A r \in Releases : p[r] = NoCRD \/ IsCRD(p[r])
    \* Every namespace was bootstrapped with its first release's CRD.
    /\ \A p \in Publications : p[FirstRelease] \in {FirstCRD, NoCRD}

VARIABLES
    published,   \* the CRD each release carries, NoCRD for none
    crd,         \* the installed CRD: its spec and resourceVersion
    requests,    \* patches on their way to the API server; one is waited for
                 \* while the pass that sent it is
    target,      \* the release each namespace's supervisor works for
    installed,   \* the one it has recorded as installed
    image,       \* the one whose image its Deployment names
    pass,        \* where its pass stands in selfUpdate
    blocked,     \* namespaces whose release was refused
    edits, faults

vars == <<published, crd, requests, target, installed, image, pass, blocked, edits, faults>>

-----------------------------------------------------------------------------
(* crd.go.                                                                 *)
SchemaAdditiveExact(previous, next) == previous = next
SchemaAdditive(previous, next) ==
    \A p \in DOMAIN previous : p \in DOMAIN next /\ next[p] = previous[p]

\* addProperties: what the installed schema lacks is taken over whole.
AddedProperties(current, desired) ==
    [p \in DOMAIN current \cup DOMAIN desired |->
        IF p \in DOMAIN current THEN current[p] ELSE desired[p]]

DefaultedNever(c) == <<c.conversion, c.scope>>
Defaulted(c) == <<IF c.conversion = "" THEN "None" ELSE c.conversion, c.scope>>

AdditiveCRD(previous, next) ==
    /\ Defaulted(previous) = Defaulted(next)
    /\ DOMAIN previous.versions = DOMAIN next.versions
    /\ \A i \in DOMAIN previous.versions :
          /\ previous.versions[i].attrs = next.versions[i].attrs
          /\ SchemaAdditive(previous.versions[i].schema, next.versions[i].schema)

WithProperties(c, desired) ==
    [c EXCEPT !.versions = [i \in DOMAIN c.versions |->
        IF i \in DOMAIN desired.versions
        THEN [c.versions[i] EXCEPT
                 !.schema = AddedProperties(@, desired.versions[i].schema)]
        ELSE c.versions[i]]]

MergeCRDTargetFirst(c, desired) ==
    LET merged == WithProperties(desired, c)
    IN  IF AdditiveCRD(desired, merged) THEN merged ELSE NoCRD
MergeCRD(c, desired) ==
    LET merged == WithProperties(c, desired)
    IN  IF AdditiveCRD(c, merged) /\ AdditiveCRD(desired, merged) THEN merged ELSE NoCRD

\* The bootstrap contract selfUpdate holds a release's CRD to.
Supported(c) == c.scope = "Namespaced" /\ c.conversion \in {"", "None"}

-----------------------------------------------------------------------------
Init ==
    /\ published \in Publications
    /\ crd = [spec |-> FirstCRD, version |-> 0]
    /\ requests = {}
    /\ target = [n \in Namespaces |-> FirstRelease]
    /\ installed = target /\ image = target
    /\ pass = [n \in Namespaces |-> "idle"]
    /\ blocked = {}
    /\ edits = 0 /\ faults = 0

\* A namespace's transition begins or is replaced between two passes.
Choose(n) ==
    /\ pass[n] = "idle" /\ edits < MaxEdits
    /\ \E r \in Releases \ {target[n]} : target' = [target EXCEPT ![n] = r]
    /\ blocked' = blocked \ {n}
    /\ edits' = edits + 1
    /\ UNCHANGED <<published, crd, requests, installed, image, pass, faults>>

(* selfUpdate: refuse, find nothing to change, or send the merged CRD.     *)
SelfUpdates(n) == pass[n] = "idle" /\ target[n] # installed[n]
Merged(n) == MergeCRD(crd.spec, published[target[n]])
Carries(n) == published[target[n]] # NoCRD

RefuseCRD(n) ==
    /\ SelfUpdates(n) /\ Carries(n)
    /\ ~Supported(published[target[n]]) \/ Merged(n) = NoCRD
    /\ blocked' = blocked \cup {n}
    /\ UNCHANGED <<published, crd, requests, target, installed, image, pass, edits, faults>>

KeepCRD(n) ==
    /\ SelfUpdates(n)
    /\ Carries(n) => Supported(published[target[n]]) /\ Merged(n) = crd.spec
    /\ pass' = [pass EXCEPT ![n] = "image"]
    /\ blocked' = blocked \ {n}
    /\ UNCHANGED <<published, crd, requests, target, installed, image, edits, faults>>

SendCRDUnchecked(n) ==
    /\ SelfUpdates(n) /\ Carries(n) /\ Supported(published[target[n]])
    /\ Merged(n) # crd.spec
    /\ requests' = requests \cup
          {[ns |-> n, spec |-> Merged(n), version |-> crd.version, waited |-> TRUE]}
    /\ pass' = [pass EXCEPT ![n] = "sent"]
    /\ blocked' = blocked \ {n}
    /\ UNCHANGED <<published, crd, target, installed, image, edits, faults>>
SendCRD(n) ==
    /\ SelfUpdates(n) /\ Carries(n) /\ Supported(published[target[n]])
    /\ Merged(n) \notin {NoCRD, crd.spec}
    /\ requests' = requests \cup
          {[ns |-> n, spec |-> Merged(n), version |-> crd.version, waited |-> TRUE]}
    /\ pass' = [pass EXCEPT ![n] = "sent"]
    /\ blocked' = blocked \ {n}
    /\ UNCHANGED <<published, crd, target, installed, image, edits, faults>>

\* The API server stores a patch whose resourceVersion is still the CRD's;
\* any other is a conflict, which ends the pass with an error.
VersionHoldsAny(q) == TRUE
VersionHolds(q) == q.version = crd.version

Deliver ==
    /\ \E q \in requests :
          /\ requests' = requests \ {q}
          /\ crd' = IF VersionHolds(q)
                    THEN [spec |-> q.spec, version |-> crd.version + 1] ELSE crd
          /\ pass' = IF ~q.waited THEN pass
                     ELSE [pass EXCEPT ![q.ns] = IF VersionHolds(q) THEN "image" ELSE "idle"]
    /\ UNCHANGED <<published, target, installed, image, blocked, edits, faults>>

PatchImage(n) ==
    /\ pass[n] = "image"
    /\ image' = [image EXCEPT ![n] = target[n]]
    /\ pass' = [pass EXCEPT ![n] = "idle"]
    /\ UNCHANGED <<published, crd, requests, target, installed, blocked, edits, faults>>

\* The new image runs and a later pass completes the transition.
Complete(n) ==
    /\ SelfUpdates(n) /\ image[n] = target[n]
    /\ installed' = [installed EXCEPT ![n] = target[n]]
    /\ UNCHANGED <<published, crd, requests, target, image, pass, blocked, edits, faults>>

\* A call times out or the supervisor stops; what it sent may still arrive.
PassEnds(n) ==
    /\ pass[n] # "idle" /\ faults < MaxFaults
    /\ pass' = [pass EXCEPT ![n] = "idle"]
    /\ requests' = {[q EXCEPT !.waited = @ /\ q.ns # n] : q \in requests}
    /\ faults' = faults + 1
    /\ UNCHANGED <<published, crd, target, installed, image, blocked, edits>>

LoseRequest ==
    /\ \E q \in requests : ~q.waited /\ requests' = requests \ {q}
    /\ UNCHANGED <<published, crd, target, installed, image, pass, blocked, edits, faults>>

\* An operator changes the CRD, or only its metadata; UPGRADING.md has that
\* reviewed across every watched namespace.
EditCRD ==
    /\ edits < MaxEdits
    /\ \E c \in Bootstraps \cup {crd.spec} :
          /\ AdditiveCRD(crd.spec, c)
          /\ crd' = [spec |-> c, version |-> crd.version + 1]
    /\ edits' = edits + 1
    /\ UNCHANGED <<published, requests, target, installed, image, pass, blocked, faults>>

SelfUpdate(n) == RefuseCRD(n) \/ KeepCRD(n) \/ SendCRD(n) \/ PatchImage(n) \/ Complete(n)

Next ==
    \/ \E n \in Namespaces : Choose(n) \/ SelfUpdate(n) \/ PassEnds(n)
    \/ Deliver \/ LoseRequest \/ EditCRD
Spec == Init /\ [][Next]_vars

\* Every supervisor polls, the API server answers what it has received, and a
\* rollout that is looked at again and again is found complete.
Fairness ==
    /\ \A n \in Namespaces : /\ WF_vars(KeepCRD(n)) /\ WF_vars(SendCRD(n))
                             /\ WF_vars(PatchImage(n)) /\ SF_vars(Complete(n))
    /\ WF_vars(Deliver)
FairSpec == Spec /\ Fairness

-----------------------------------------------------------------------------
(* Correctness.                                                            *)

\* Every variable keeps its type: what is merged and sent is a CRD again.
TypeOK ==
    /\ published \in Publications
    /\ crd \in [spec : {crd.spec}, version : Nat] /\ IsCRD(crd.spec)
    /\ \A q \in requests :
          /\ q \in [ns : Namespaces, spec : {q.spec}, version : Nat, waited : BOOLEAN]
          /\ IsCRD(q.spec)
    /\ target \in [Namespaces -> Releases] /\ installed \in [Namespaces -> Releases]
    /\ image \in [Namespaces -> Releases]
    /\ pass \in [Namespaces -> {"idle", "sent", "image"}]
    /\ blocked \subseteq Namespaces
    /\ edits \in Nat /\ faults \in Nat

\* What the installed CRD must be for a release's supervisor and its objects.
Fits(r) == published[r] = NoCRD \/ AdditiveCRD(published[r], crd.spec)

\* A supervisor whose image was replaced runs on a CRD that has what its
\* release needs, and keeps having it, whatever the supervisors of the other
\* namespaces merge and whenever their patches arrive (selfUpdate's order and
\* the resourceVersion in its patch).
ImagesFit == \A n \in Namespaces : Fits(image[n])

\* No merge takes anything from the installed CRD or changes what it says:
\* objects of every namespace stay valid (CONTRACT.md, "additive CRD").
NothingRemoved == [][AdditiveCRD(crd.spec, crd.spec')]_vars

\* Two CRDs that differ only in optional properties, on either side.
Compatible(c, t) ==
    \/ t = NoCRD
    \/ /\ Supported(t) /\ c.scope = t.scope
       /\ c.conversion = t.conversion \/ {c.conversion, t.conversion} \subseteq {"", "None"}
       /\ DOMAIN c.versions = DOMAIN t.versions
       /\ \A i \in DOMAIN c.versions :
             /\ c.versions[i].attrs = t.versions[i].attrs
             /\ \A p \in DOMAIN c.versions[i].schema \cap DOMAIN t.versions[i].schema :
                   c.versions[i].schema[p] = t.versions[i].schema[p]

\* A namespace is blocked only by a release that really conflicts with the
\* CRD, and no later merge could have made room for it (CRDUpgradeUnsupported
\* asks for an explicit bootstrap).
BlockedRightly ==
    \A n \in blocked : ~Compatible(crd.spec, published[target[n]])

\* A namespace whose target stays, and stays compatible with the CRD, gets it
\* installed, however many conflicts, lost answers and restarts came before.
CompatibleUpdates ==
    \A n \in Namespaces : \A r \in Releases :
        <>[](target[n] = r /\ Compatible(crd.spec, published[r])) => <>[](installed[n] = r)
=============================================================================
