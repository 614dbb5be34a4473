------------------------------ MODULE Ownership ------------------------------
(***************************************************************************)
(* Who owns the objects of a PIGDeployment: Apply of kube.go with the      *)
(* owner check it shares with the phase quiesce, the status patch, and     *)
(* scripts/ingress-handoff.py, which hands the analyzer's Ingress to Helm, *)
(* while the PIGDeployment is deleted and created again, other parties     *)
(* create, edit and delete objects of the same names and the garbage       *)
(* collector follows owner references.                                     *)
(*                                                                         *)
(* object stands for each of the analyzer's resources: all are applied the *)
(* same way and have fixed names.  A pass reads and writes in separate     *)
(* steps here, because the others act between them.  The handoff's two     *)
(* documents are saved one after the other, and the patch made from them   *)
(* may be applied at any later time, and again.                            *)
(*                                                                         *)
(* An operator whose name extends another's is that operator with a bug.   *)
(***************************************************************************)
EXTENDS Naturals

CONSTANTS
    None,         \* no object, no document, no Helm release
    Other,        \* an owner other than the PIGDeployment
    Helm,         \* the Helm release the Ingress is handed to, and another one
    OtherHelm,
    Keys,         \* labels and annotations of the Ingress, Helm's not included
    MaxUID,       \* bound: how often the PIGDeployment and the Ingress are created
    MaxEdits,     \* bound: edits by other parties
    MaxFaults     \* bound: passes that end early

UIDs == 1 .. MaxUID

ASSUME OwnershipAssumption ==
    /\ MaxUID \in Nat \ {0} /\ MaxEdits \in Nat /\ MaxFaults \in Nat
    /\ Other \notin UIDs /\ None \notin {Helm, OtherHelm} /\ Helm # OtherHelm

VARIABLES
    pig,        \* the PIGDeployment: whether it is there, its uid, resourceVersion
                \* and spec, and the uid listed by the pass that wrote its status
    object,     \* an analyzer resource, or None
    pass,       \* the pass in progress and what it listed and read
    ingress,    \* the Ingress, or None
    savedPig, savedIngress,   \* the documents the handoff patch is made from
    created,    \* objects and Ingresses created so far
    edits, faults

pigVars == <<pig, pass, object>>
handoffVars == <<ingress, savedPig, savedIngress, created>>
vars == <<pigVars, handoffVars, edits, faults>>

Pigs == [live : BOOLEAN, uid : UIDs, version : Nat, spec : BOOLEAN, by : 0 .. MaxUID]
Objects ==
    [born : Nat,             \* which creation it comes from
     owners : SUBSET (UIDs \cup {Other}),
     foreign : BOOLEAN,      \* another party created it
     conflicts : BOOLEAN,    \* another manager set a field that Apply sets otherwise
     spec : BOOLEAN]         \* the spec it was last applied for
Ingresses ==
    [uid : Nat, version : Nat, owners : SUBSET (UIDs \cup {Other}),
     keys : SUBSET Keys, helm : {None, Helm, OtherHelm}]
Passes ==
    [pc : {"idle", "listed", "read", "ending"}, uid : 0 .. MaxUID, version : Nat,
     spec : BOOLEAN, saw : Nat]    \* the creation it read, 0 for none
IdlePass == [pc |-> "idle", uid |-> 0, version |-> 0, spec |-> FALSE, saw |-> 0]

Init ==
    /\ pig = [live |-> TRUE, uid |-> 1, version |-> 0, spec |-> FALSE, by |-> 0]
    /\ object = None
    /\ pass = IdlePass
    /\ ingress = [uid |-> 1, version |-> 0, owners |-> {1}, keys |-> {}, helm |-> None]
    /\ savedPig = 0 /\ savedIngress = None
    /\ created = 1
    /\ edits = 0 /\ faults = 0

-----------------------------------------------------------------------------
(* The supervisor.                                                         *)
ListWithoutUID ==
    /\ pass.pc = "idle" /\ pig.live
    /\ pass' = [pc |-> "listed", uid |-> 0, version |-> pig.version,
                spec |-> pig.spec, saw |-> 0]
    /\ UNCHANGED <<pig, object, handoffVars, edits, faults>>
List ==
    /\ pass.pc = "idle" /\ pig.live
    /\ pass' = [pc |-> "listed", uid |-> pig.uid, version |-> pig.version,
                spec |-> pig.spec, saw |-> 0]
    /\ UNCHANGED <<pig, object, handoffVars, edits, faults>>

OwnedAny == TRUE
OwnedNever == FALSE
Owned == pass.uid \in object.owners

\* Apply reads the object first; a pass that does not own it goes on only to
\* report that in the status.
Read ==
    /\ pass.pc = "listed"
    /\ pass' = IF object = None THEN [pass EXCEPT !.pc = "read"]
               ELSE IF Owned THEN [pass EXCEPT !.pc = "read", !.saw = object.born]
               ELSE [pass EXCEPT !.pc = "ending"]
    /\ UNCHANGED <<pig, object, handoffVars, edits, faults>>

\* Then it applies on the server's side, without force: a field of another
\* manager is a conflict.  The owner references the supervisor set before give
\* way to the new one, those of others stay.
Apply ==
    /\ pass.pc = "read"
    /\ pass' = [pass EXCEPT !.pc = "ending"]
    /\ \/ /\ object = None
          /\ object' = [born |-> created + 1, owners |-> {pass.uid},
                        foreign |-> FALSE, conflicts |-> FALSE, spec |-> pass.spec]
          /\ created' = created + 1
       \/ /\ object # None /\ ~object.conflicts
          /\ object' = [object EXCEPT !.owners = (@ \cap {Other}) \cup {pass.uid},
                                      !.spec = pass.spec]
          /\ UNCHANGED created
       \/ /\ object # None /\ object.conflicts
          /\ UNCHANGED <<object, created>>
    /\ UNCHANGED <<pig, ingress, savedPig, savedIngress, edits, faults>>

\* Every pass ends with a status patch, refused ones too.  It names the listed
\* object's resourceVersion, not its uid, and its conditions are left out here.
VersionHoldsAny == pig.live
VersionHolds == pig.live /\ pig.version = pass.version

Commit ==
    /\ pass.pc = "ending"
    /\ pass' = IdlePass
    /\ pig' = IF VersionHolds /\ pig.by # pass.uid
              THEN [pig EXCEPT !.by = pass.uid, !.version = @ + 1] ELSE pig
    /\ UNCHANGED <<object, handoffVars, edits, faults>>

\* The supervisor stops, or a call fails.
PassEnds ==
    /\ pass.pc # "idle" /\ faults < MaxFaults
    /\ pass' \in {IdlePass, [pass EXCEPT !.pc = "ending"]}
    /\ faults' = faults + 1
    /\ UNCHANGED <<pig, object, handoffVars, edits>>

-----------------------------------------------------------------------------
(* ingress-handoff.py and the operator who runs it.                        *)
SavePig ==
    /\ pig.live /\ savedPig # pig.uid
    /\ savedPig' = pig.uid
    /\ UNCHANGED <<pigVars, ingress, savedIngress, created, edits, faults>>

SaveIngress ==
    /\ ingress # None /\ savedIngress # ingress
    /\ savedIngress' = ingress
    /\ UNCHANGED <<pigVars, ingress, savedPig, created, edits, faults>>

\* The patch is printed only for an Ingress with the PIGDeployment as its
\* sole owner, which no other Helm release has annotated.
Prepared ==
    /\ savedPig # 0 /\ savedIngress # None
    /\ savedIngress.owners = {savedPig}
    /\ savedIngress.helm \in {None, Helm}

\* The tests of the patch.
TestsHoldForUID ==
    ingress.uid = savedIngress.uid /\ ingress.owners = savedIngress.owners
TestsHold ==
    /\ ingress.uid = savedIngress.uid
    /\ ingress.version = savedIngress.version
    /\ ingress.owners = savedIngress.owners

Handoff ==
    /\ Prepared /\ ingress # None /\ TestsHold
    /\ ingress' = [ingress EXCEPT !.owners = {}, !.keys = savedIngress.keys,
                                  !.helm = Helm, !.version = @ + 1]
    /\ UNCHANGED <<pigVars, savedPig, savedIngress, created, edits, faults>>

-----------------------------------------------------------------------------
(* Other parties and the cluster (external).                               *)
DeletePig ==
    /\ pig.live
    /\ pig' = [pig EXCEPT !.live = FALSE]
    /\ UNCHANGED <<object, ingress, created>>

\* A new object has a new uid and a new resourceVersion, and no status.
RecreatePig ==
    /\ ~pig.live /\ pig.uid < MaxUID
    /\ pig' = [pig EXCEPT !.live = TRUE, !.uid = @ + 1, !.version = @ + 1, !.by = 0]
    /\ UNCHANGED <<object, ingress, created>>

EditPig ==
    /\ pig.live
    /\ pig' = [pig EXCEPT !.spec = ~@, !.version = @ + 1]
    /\ UNCHANGED <<object, ingress, created>>

CreateForeign ==
    /\ object = None
    /\ \E owners \in {{}, {Other}}, conflicts \in BOOLEAN :
          object' = [born |-> created + 1, owners |-> owners, foreign |-> TRUE,
                     conflicts |-> conflicts, spec |-> FALSE]
    /\ created' = created + 1
    /\ UNCHANGED <<pig, ingress>>

EditObject ==
    /\ object # None
    /\ object' \in {None, [object EXCEPT !.conflicts = ~@]}
    /\ UNCHANGED <<pig, ingress, created>>

EditIngress ==
    /\ ingress # None
    /\ \/ ingress' = None
       \/ \E k \in Keys : ingress' = [ingress EXCEPT !.version = @ + 1,
             !.keys = IF k \in @ THEN @ \ {k} ELSE @ \cup {k}]
       \/ ingress' = [ingress EXCEPT !.version = @ + 1, !.owners = @ \cup {Other}]
       \/ ingress.helm = None
          /\ ingress' = [ingress EXCEPT !.version = @ + 1, !.helm = OtherHelm]
    /\ UNCHANGED <<pig, object, created>>

\* An older supervisor, or somebody else, creates the Ingress again.
CreateIngress ==
    /\ ingress = None
    /\ \E owners \in {{}, {pig.uid}} :
          ingress' = [uid |-> created + 1, version |-> 0, owners |-> owners,
                      keys |-> {}, helm |-> None]
    /\ created' = created + 1
    /\ UNCHANGED <<pig, object>>

Edit ==
    /\ edits < MaxEdits
    /\ \/ DeletePig \/ RecreatePig \/ EditPig \/ CreateForeign \/ EditObject
       \/ EditIngress \/ CreateIngress
    /\ edits' = edits + 1
    /\ UNCHANGED <<pass, savedPig, savedIngress, faults>>

\* The garbage collector deletes what has owners and none of them left.
Live(owner) == owner = Other \/ (pig.live /\ owner = pig.uid)
Orphaned(o) == o # None /\ o.owners # {} /\ \A owner \in o.owners : ~Live(owner)
CollectObject ==
    /\ Orphaned(object) /\ object' = None
    /\ UNCHANGED <<pig, pass, handoffVars, edits, faults>>
CollectIngress ==
    /\ Orphaned(ingress) /\ ingress' = None
    /\ UNCHANGED <<pigVars, savedPig, savedIngress, created, edits, faults>>

Supervise == List \/ Read \/ Apply \/ Commit
Next ==
    \/ Supervise \/ PassEnds \/ SavePig \/ SaveIngress \/ Handoff
    \/ Edit \/ CollectObject \/ CollectIngress
Spec == Init /\ [][Next]_vars
\* The supervisor polls, and the garbage collector runs.
FairSpec == Spec /\ WF_vars(Supervise) /\ WF_vars(CollectObject)

-----------------------------------------------------------------------------
(* Correctness.                                                            *)

\* Every variable keeps its type, and a pass works for a PIGDeployment.
TypeOK ==
    /\ pig \in Pigs /\ object \in Objects \cup {None}
    /\ pass \in Passes /\ (pass.pc # "idle" => pass.uid \in UIDs)
    /\ ingress \in Ingresses \cup {None}
    /\ savedPig \in 0 .. MaxUID /\ savedIngress \in Ingresses \cup {None}
    /\ created \in Nat /\ edits \in Nat /\ faults \in Nat

\* CONTRACT.md, "It refuses to adopt existing resources owned by another
\* party": the supervisor becomes an owner of such an object only if it was
\* created after the pass had read, within one call of Apply.
NotTaken ==
    [][(object # None /\ object.foreign /\ object' # None
           /\ pass.uid \in object'.owners \ object.owners)
        => object.born # pass.saw]_vars

\* A PIGDeployment that was created again under the same name does not get the
\* status of the one before it, which would call its releases installed: the
\* resourceVersion in the status patch also tells the two apart.
StatusOwn == pig.live => pig.by \in {0, pig.uid}

\* UPGRADING.md, "preserves existing labels/annotations" and "do not drop its
\* guards": however long after the documents were saved and however often the
\* patch is applied, it takes no label, annotation or other owner from the
\* Ingress and takes it from no other Helm release.
HandoffLosesNothing ==
    [][Handoff => /\ ingress'.keys = ingress.keys
                  /\ ingress.owners \cap {Other} = {}
                  /\ ingress.helm # OtherHelm]_vars

\* Once nobody interferes, the objects are those of the PIGDeployment that is
\* there, for its spec, even if the one before it or a pass that still worked
\* for it left its own behind: they go with their owner.
Reinstalled ==
    <>[](pig.live /\ (object # None => ~object.foreign /\ ~object.conflicts))
        => <>[](object # None /\ object.owners = {pig.uid} /\ object.spec = pig.spec)
=============================================================================
