--------------------------- MODULE OwnershipProofs ---------------------------
(***************************************************************************)
(* Proofs about Ownership, for any number of edits, passes and creations:  *)
(* its types; that a resourceVersion tells a PIGDeployment from the one    *)
(* before it; that what a pass read and finds again is what it owned; and  *)
(* that the Ingress which passes the tests of the handoff's patch is the   *)
(* one that was saved, whole.                                              *)
(***************************************************************************)
EXTENDS Ownership, TLAPS

\* An action of the others, as Edit takes it.
Edits == \/ DeletePig \/ RecreatePig \/ EditPig \/ CreateForeign \/ EditObject
         \/ EditIngress \/ CreateIngress

-----------------------------------------------------------------------------
(* Types.                                                                  *)
LEMMA PassType ==
    ASSUME TypeOK, Supervise \/ PassEnds PROVE TypeOK'
<1> USE DEF TypeOK
<1>1. IdlePass \in Passes /\ IdlePass.pc = "idle"
    BY OwnershipAssumption DEF IdlePass, Passes
<1>2. CASE List
    <2>1. pig.uid \in 0 .. MaxUID /\ pig.uid \in UIDs
        BY DEF Pigs, UIDs
    <2>2. pass' \in Passes /\ pass'.uid \in UIDs
        BY <1>2, <2>1 DEF List, Passes, Pigs
    <2> QED BY <1>2, <2>2 DEF List, handoffVars
<1>3. CASE Read
    <2>1. pass' \in Passes /\ pass'.uid = pass.uid
        BY <1>3 DEF Read, Passes, Objects
    <2> QED BY <1>3, <2>1 DEF Read, handoffVars
<1>4. CASE Apply
    <2>1. pass' \in Passes /\ pass'.uid = pass.uid /\ pass.uid \in UIDs
        BY <1>4 DEF Apply, Passes
    <2>2. object' \in Objects \cup {None} /\ created' \in Nat
        <3>1. CASE object = None
            <4>1. /\ created' = created + 1
                  /\ object' = [born |-> created + 1, owners |-> {pass.uid}, foreign |-> FALSE,
                                conflicts |-> FALSE, spec |-> pass.spec]
                BY <1>4, <3>1 DEF Apply
            <4>2. created + 1 \in Nat /\ pass.spec \in BOOLEAN
                  /\ {pass.uid} \in SUBSET (UIDs \cup {Other})
                BY <2>1 DEF Passes
            <4> QED BY <4>1, <4>2 DEF Objects
        <3>2. CASE object # None
            <4>1. object \in Objects /\ pass.spec \in BOOLEAN
                BY <3>2 DEF Passes
            <4>2. /\ created' = created
                  /\ object' = object \/ object' =
                        [object EXCEPT !.owners = (@ \cap {Other}) \cup {pass.uid},
                                       !.spec = pass.spec]
                BY <1>4, <3>2 DEF Apply
            <4>3. (object.owners \cap {Other}) \cup {pass.uid} \in SUBSET (UIDs \cup {Other})
                BY <2>1
            <4> QED BY <4>1, <4>2, <4>3 DEF Objects
        <3> QED BY <3>1, <3>2
    <2> QED BY <1>4, <2>1, <2>2 DEF Apply
<1>5. CASE Commit
    <2>1. pass.uid \in 0 .. MaxUID
        BY DEF Passes
    <2>2. pig' \in Pigs
        <3>1. pig' = pig \/ pig' = [pig EXCEPT !.by = pass.uid, !.version = @ + 1]
            BY <1>5 DEF Commit
        <3>2. pig \in Pigs /\ pig.version + 1 \in Nat
            BY DEF Pigs
        <3> QED BY <2>1, <3>1, <3>2 DEF Pigs
    <2> QED BY <1>1, <1>5, <2>2 DEF Commit, handoffVars
<1>6. CASE PassEnds
    <2>1. pass' \in Passes /\ (pass'.pc # "idle" => pass'.uid \in UIDs)
        BY <1>1, <1>6 DEF PassEnds, Passes
    <2> QED BY <1>6, <2>1 DEF PassEnds, handoffVars
<1> QED BY <1>2, <1>3, <1>4, <1>5, <1>6 DEF Supervise

LEMMA HandoffType ==
    ASSUME TypeOK, SavePig \/ SaveIngress \/ Handoff PROVE TypeOK'
<1> USE DEF TypeOK
<1>1. CASE SavePig
    BY <1>1 DEF SavePig, pigVars, Pigs, UIDs
<1>2. CASE SaveIngress
    BY <1>2 DEF SaveIngress, pigVars
<1>3. CASE Handoff
    <2>1. ingress \in Ingresses /\ savedIngress \in Ingresses
        BY <1>3 DEF Handoff, Prepared
    <2>2. ingress' \in Ingresses
        <3>1. ingress' = [ingress EXCEPT !.owners = {}, !.keys = savedIngress.keys,
                                         !.helm = Helm, !.version = @ + 1]
            BY <1>3 DEF Handoff
        <3>2. {} \in SUBSET (UIDs \cup {Other}) /\ savedIngress.keys \in SUBSET Keys
              /\ ingress.version + 1 \in Nat
            BY <2>1 DEF Ingresses
        <3> QED BY <2>1, <3>1, <3>2 DEF Ingresses
    <2> QED BY <1>3, <2>2 DEF Handoff, pigVars
<1> QED BY <1>1, <1>2, <1>3

LEMMA EditsType ==
    ASSUME TypeOK, Edits
    PROVE  /\ pig' \in Pigs /\ object' \in Objects \cup {None}
           /\ ingress' \in Ingresses \cup {None} /\ created' \in Nat
<1> USE DEF TypeOK
<1>1. CASE DeletePig \/ RecreatePig \/ EditPig
    <2>1. pig.uid \in UIDs /\ pig.version + 1 \in Nat /\ 0 \in 0 .. MaxUID
          /\ (pig.uid < MaxUID => pig.uid + 1 \in UIDs)
        BY OwnershipAssumption DEF Pigs, UIDs
    <2>2. CASE DeletePig
        BY <2>2 DEF DeletePig, Pigs
    <2>3. CASE RecreatePig
        BY <2>1, <2>3 DEF RecreatePig, Pigs
    <2>4. CASE EditPig
        BY <2>1, <2>4 DEF EditPig, Pigs
    <2> QED BY <1>1, <2>2, <2>3, <2>4
<1>2. CASE CreateForeign
    BY <1>2 DEF CreateForeign, Objects
<1>3. CASE EditObject
    BY <1>3 DEF EditObject, Objects
<1>4. CASE EditIngress
    <2>1. ingress \in Ingresses
        BY <1>4 DEF EditIngress
    <2>3. ASSUME NEW k \in Keys,
                 ingress' = [ingress EXCEPT !.version = @ + 1,
                                !.keys = IF k \in @ THEN @ \ {k} ELSE @ \cup {k}]
          PROVE  ingress' \in Ingresses
        <3>1. (IF k \in ingress.keys THEN ingress.keys \ {k} ELSE ingress.keys \cup {k})
                  \in SUBSET Keys
              /\ ingress.version + 1 \in Nat
            BY <2>1 DEF Ingresses
        <3> QED BY <2>1, <2>3, <3>1 DEF Ingresses
    <2>4. ASSUME ingress' = [ingress EXCEPT !.version = @ + 1, !.owners = @ \cup {Other}]
          PROVE  ingress' \in Ingresses
        <3>1. ingress.owners \cup {Other} \in SUBSET (UIDs \cup {Other})
              /\ ingress.version + 1 \in Nat
            BY <2>1 DEF Ingresses
        <3> QED BY <2>1, <2>4, <3>1 DEF Ingresses
    <2>5. ASSUME ingress' = [ingress EXCEPT !.version = @ + 1, !.helm = OtherHelm]
          PROVE  ingress' \in Ingresses
        <3>1. ingress.version + 1 \in Nat
            BY <2>1 DEF Ingresses
        <3> QED BY <2>1, <2>5, <3>1 DEF Ingresses
    <2>6. ingress' \in Ingresses \cup {None}
        BY <1>4, <2>3, <2>4, <2>5 DEF EditIngress
    <2> QED BY <1>4, <2>6 DEF EditIngress
<1>5. CASE CreateIngress
    <2>1. pig.uid \in UIDs
        BY DEF Pigs
    <2> QED BY <1>5, <2>1 DEF CreateIngress, Ingresses
<1> QED BY <1>1, <1>2, <1>3, <1>4, <1>5 DEF Edits

LEMMA NextType == TypeOK /\ [Next]_vars => TypeOK'
<1> SUFFICES ASSUME TypeOK, [Next]_vars PROVE TypeOK'
    OBVIOUS
<1>1. CASE Edit
    <2>1. Edits /\ edits' = edits + 1 /\ UNCHANGED <<pass, savedPig, savedIngress, faults>>
        BY <1>1 DEF Edit, Edits
    <2> QED BY <2>1, EditsType DEF TypeOK
<1>2. CASE CollectObject \/ CollectIngress
    BY <1>2 DEF CollectObject, CollectIngress, TypeOK, handoffVars, pigVars
<1>3. CASE UNCHANGED vars
    BY <1>3 DEF vars, pigVars, handoffVars, TypeOK
<1> QED BY <1>1, <1>2, <1>3, PassType, HandoffType DEF Next

LEMMA InitType == Init => TypeOK
<1> SUFFICES ASSUME Init PROVE TypeOK
    OBVIOUS
<1>1. 1 \in UIDs /\ 0 \in 0 .. MaxUID
    BY OwnershipAssumption DEF UIDs
<1> QED BY <1>1 DEF Init, TypeOK, Pigs, Passes, IdlePass, Ingresses, UIDs

\* The types hold in every reachable state, and a pass at work has the uid of a
\* PIGDeployment.
THEOREM TypeCorrect == Spec => []TypeOK
BY InitType, NextType, PTL DEF Spec

-----------------------------------------------------------------------------
(* The invariants.                                                         *)

\* A status is its own object's, and a pass whose resourceVersion still holds
\* listed the object that is there.
Versioned ==
    /\ pig.by \in {0, pig.uid}
    /\ pass.pc # "idle" => /\ pass.version <= pig.version
                           /\ pass.version = pig.version => pass.uid = pig.uid

\* An object that is still the creation a pass read has that pass as its owner.
ReadOwned ==
    /\ created >= 1 /\ pass.saw <= created
    /\ object # None => /\ object.born \in 1 .. created
                        /\ object.born = pass.saw => pass.uid \in object.owners

\* A saved Ingress with the uid of the one that is there is an earlier state of
\* it, and the same if the resourceVersion is.
SavedBefore ==
    /\ ingress # None => ingress.uid <= created
    /\ savedIngress # None => savedIngress.uid <= created
    /\ (ingress # None /\ savedIngress # None /\ ingress.uid = savedIngress.uid) =>
          /\ savedIngress.version <= ingress.version
          /\ savedIngress.version = ingress.version => savedIngress = ingress

Inv == TypeOK /\ Versioned /\ ReadOwned /\ SavedBefore

\* The numbers in the records are numbers.
LEMMA Numbers ==
    ASSUME TypeOK
    PROVE  /\ pig.version \in Nat /\ pig.uid \in Nat /\ pass.version \in Nat /\ pass.saw \in Nat
           /\ created \in Nat
           /\ object # None => object.born \in Nat
           /\ ingress # None => ingress.uid \in Nat /\ ingress.version \in Nat
           /\ savedIngress # None => savedIngress.uid \in Nat /\ savedIngress.version \in Nat
BY DEF TypeOK, Pigs, Passes, Objects, Ingresses, UIDs

\* The PIGDeployment: a pass that writes the status holds the resourceVersion,
\* and whatever else changes the object, its creation included, moves that on.
LEMMA VersionedStep == Inv /\ [Next]_vars => Versioned'
<1> SUFFICES ASSUME Inv, [Next]_vars PROVE Versioned'
    OBVIOUS
<1>1. /\ pig.version \in Nat /\ pass.version \in Nat /\ pig \in Pigs /\ pass \in Passes
      /\ Versioned
    BY Numbers DEF Inv, TypeOK
<1>2. ASSUME UNCHANGED <<pig, pass>> PROVE Versioned'
    BY <1>1, <1>2 DEF Versioned
<1>3. ASSUME UNCHANGED pig,
             pass'.pc = "idle" \/ (pass.pc # "idle" /\ pass'.version = pass.version
                                   /\ pass'.uid = pass.uid)
      PROVE  Versioned'
    BY <1>1, <1>3 DEF Versioned
<1>4. CASE List
    BY <1>1, <1>4 DEF List, Versioned
<1>5. CASE Read
    BY <1>1, <1>3, <1>5 DEF Read, Passes
<1>6. CASE Apply
    BY <1>1, <1>3, <1>6 DEF Apply, Passes
<1>7. CASE Commit
    <2>1. pass' = IdlePass /\ pass.pc = "ending"
        BY <1>7 DEF Commit
    <2>2. pig' = pig \/ (VersionHolds /\ pig' = [pig EXCEPT !.by = pass.uid, !.version = @ + 1])
        BY <1>7 DEF Commit
    <2>3. VersionHolds => pass.uid = pig.uid
        BY <1>1, <2>1 DEF Versioned, VersionHolds
    <2>4. pig'.by \in {0, pig'.uid}
        BY <1>1, <2>2, <2>3 DEF Versioned, Pigs
    <2> QED BY <2>1, <2>4 DEF Versioned, IdlePass
<1>8. CASE PassEnds
    BY <1>1, <1>3, <1>8 DEF PassEnds, IdlePass, Passes
<1>9. ASSUME DeletePig \/ RecreatePig \/ EditPig, UNCHANGED pass PROVE Versioned'
    <2>1. CASE DeletePig
        BY <1>1, <1>9, <2>1 DEF DeletePig, Pigs, Versioned
    <2>2. CASE RecreatePig
        <3>1. pig'.by = 0 /\ pig'.version = pig.version + 1
            BY <1>1, <2>2 DEF RecreatePig, Pigs
        <3> QED BY <1>1, <1>9, <3>1 DEF Versioned
    <2>3. CASE EditPig
        <3>1. pig'.by = pig.by /\ pig'.uid = pig.uid /\ pig'.version = pig.version + 1
            BY <1>1, <2>3 DEF EditPig, Pigs
        <3> QED BY <1>1, <1>9, <3>1 DEF Versioned
    <2> QED BY <1>9, <2>1, <2>2, <2>3
<1>10. CASE Edit
    BY <1>2, <1>9, <1>10 DEF Edit, CreateForeign, EditObject, EditIngress, CreateIngress
<1>11. CASE SavePig \/ SaveIngress \/ Handoff \/ CollectObject \/ CollectIngress \/ UNCHANGED vars
    BY <1>2, <1>11 DEF SavePig, SaveIngress, Handoff, CollectObject, CollectIngress, vars, pigVars
<1> QED BY <1>4, <1>5, <1>6, <1>7, <1>8, <1>10, <1>11 DEF Next, Supervise

\* The objects: each creation has a number of its own, and what a pass applies,
\* it owns.
LEMMA ReadOwnedStep == Inv /\ [Next]_vars => ReadOwned'
<1> SUFFICES ASSUME Inv, [Next]_vars PROVE ReadOwned'
    OBVIOUS
<1>1. /\ created \in Nat /\ pass.saw \in Nat /\ pass \in Passes /\ ReadOwned
      /\ object # None => object \in Objects /\ object.born \in Nat
    BY Numbers DEF Inv, TypeOK
<1>2. ASSUME UNCHANGED <<object, pass>>, created' \in {created, created + 1} PROVE ReadOwned'
    BY <1>1, <1>2 DEF ReadOwned
<1>3. CASE List
    BY <1>1, <1>3 DEF List, ReadOwned, handoffVars
<1>4. CASE Read
    <2>1. UNCHANGED <<object, created>> /\ pass'.uid = pass.uid
        BY <1>1, <1>4 DEF Read, handoffVars, Passes
    <2>2. pass'.saw = pass.saw \/ (object # None /\ Owned /\ pass'.saw = object.born)
        BY <1>1, <1>4 DEF Read, Passes
    <2> QED BY <1>1, <2>1, <2>2 DEF ReadOwned, Owned
<1>5. CASE Apply
    <2>1. pass'.uid = pass.uid /\ pass'.saw = pass.saw
        BY <1>1, <1>5 DEF Apply, Passes
    <2>2. CASE object = None
        <3>1. created' = created + 1 /\ object'.born = created + 1
            BY <1>5, <2>2 DEF Apply
        <3> QED BY <1>1, <2>1, <3>1 DEF ReadOwned
    <2>3. CASE object # None
        <3>1. /\ created' = created
              /\ \/ object' = object
                 \/ object' = [object EXCEPT !.owners = (@ \cap {Other}) \cup {pass.uid},
                                             !.spec = pass.spec]
            BY <1>5, <2>3 DEF Apply
        <3>2. object'.born = object.born
              /\ (object'.owners = object.owners \/ pass.uid \in object'.owners)
            BY <1>1, <2>3, <3>1 DEF Objects
        <3> QED BY <1>1, <2>1, <2>3, <3>1, <3>2 DEF ReadOwned
    <2> QED BY <2>2, <2>3
<1>6. ASSUME UNCHANGED <<object, created>>,
             pass'.saw = 0 \/ (pass'.saw = pass.saw /\ pass'.uid = pass.uid)
      PROVE  ReadOwned'
    BY <1>1, <1>6 DEF ReadOwned
<1>7. CASE Commit \/ PassEnds
    BY <1>1, <1>6, <1>7 DEF Commit, PassEnds, IdlePass, Passes, handoffVars
<1>8. CASE Edit
    <2>1. UNCHANGED pass
        BY <1>8 DEF Edit
    <2>2. CASE CreateForeign
        <3>1. created' = created + 1 /\ object'.born = created + 1
            BY <2>2 DEF CreateForeign
        <3> QED BY <1>1, <2>1, <3>1 DEF ReadOwned
    <2>3. CASE EditObject
        <3>1. /\ created' = created /\ object # None
              /\ object' = None \/ object' = [object EXCEPT !.conflicts = ~@]
            BY <2>3 DEF EditObject
        <3>2. object' # None => object'.born = object.born /\ object'.owners = object.owners
            BY <1>1, <3>1 DEF Objects
        <3> QED BY <1>1, <2>1, <3>1, <3>2 DEF ReadOwned
    <2> QED BY <1>2, <1>8, <2>1, <2>2, <2>3
            DEF Edit, DeletePig, RecreatePig, EditPig, EditIngress, CreateIngress
<1>9. CASE CollectObject
    BY <1>1, <1>9 DEF CollectObject, ReadOwned, handoffVars
<1>10. CASE SavePig \/ SaveIngress \/ Handoff \/ CollectIngress \/ UNCHANGED vars
    BY <1>1, <1>2, <1>10 DEF SavePig, SaveIngress, Handoff, CollectIngress, vars, pigVars, handoffVars
<1> QED BY <1>3, <1>4, <1>5, <1>7, <1>8, <1>9, <1>10 DEF Next, Supervise

\* The Ingress: every write moves its resourceVersion on, and a new one has a
\* uid no document has.
LEMMA SavedBeforeStep == Inv /\ [Next]_vars => SavedBefore'
<1> SUFFICES ASSUME Inv, [Next]_vars PROVE SavedBefore'
    OBVIOUS
<1>1. /\ created \in Nat /\ SavedBefore
      /\ ingress # None => /\ ingress \in Ingresses /\ ingress.uid \in Nat
                           /\ ingress.version \in Nat
      /\ savedIngress # None => savedIngress.uid \in Nat /\ savedIngress.version \in Nat
    BY Numbers DEF Inv, TypeOK
<1>2. ASSUME UNCHANGED savedIngress, ingress' \in {ingress, None},
             created' \in {created, created + 1}
      PROVE  SavedBefore'
    BY <1>1, <1>2 DEF SavedBefore
<1>3. ASSUME UNCHANGED <<savedIngress, created>>, ingress # None,
             ingress'.uid = ingress.uid, ingress'.version = ingress.version + 1
      PROVE  SavedBefore'
    BY <1>1, <1>3 DEF SavedBefore
<1>4. CASE SaveIngress
    BY <1>1, <1>4 DEF SaveIngress, SavedBefore
<1>5. CASE Handoff
    <2>1. ingress # None /\ UNCHANGED <<savedIngress, created>>
          /\ ingress' = [ingress EXCEPT !.owners = {}, !.keys = savedIngress.keys,
                                        !.helm = Helm, !.version = @ + 1]
        BY <1>5 DEF Handoff
    <2>2. ingress'.uid = ingress.uid /\ ingress'.version = ingress.version + 1
        BY <1>1, <2>1 DEF Ingresses
    <2> QED BY <1>3, <2>1, <2>2
<1>6. CASE Edit
    <2>1. UNCHANGED savedIngress
        BY <1>6 DEF Edit
    <2>2. CASE EditIngress
        <3>1. ingress # None /\ UNCHANGED created
            BY <2>2 DEF EditIngress
        <3>2. ingress' = None
              \/ (ingress'.uid = ingress.uid /\ ingress'.version = ingress.version + 1)
            BY <1>1, <2>2 DEF EditIngress, Ingresses
        <3> QED BY <1>2, <1>3, <2>1, <3>1, <3>2
    <2>3. CASE CreateIngress
        <3>1. created' = created + 1 /\ ingress'.uid = created + 1
            BY <2>3 DEF CreateIngress
        <3> QED BY <1>1, <2>1, <3>1 DEF SavedBefore
    <2> QED BY <1>2, <1>6, <2>1, <2>2, <2>3
            DEF Edit, DeletePig, RecreatePig, EditPig, CreateForeign, EditObject
<1>7. CASE Apply
    BY <1>2, <1>7 DEF Apply
<1>8. CASE \/ List \/ Read \/ Commit \/ PassEnds \/ SavePig \/ CollectObject
           \/ CollectIngress \/ UNCHANGED vars
    BY <1>2, <1>8 DEF List, Read, Commit, PassEnds, SavePig, CollectObject, CollectIngress,
       vars, handoffVars, pigVars
<1> QED BY <1>4, <1>5, <1>6, <1>7, <1>8 DEF Next, Supervise

LEMMA NextInv == Inv /\ [Next]_vars => Inv'
BY NextType, VersionedStep, ReadOwnedStep, SavedBeforeStep DEF Inv

LEMMA InitInv == Init => Inv
<1> SUFFICES ASSUME Init PROVE Inv
    OBVIOUS
<1>1. Versioned /\ ReadOwned
    BY DEF Init, Versioned, ReadOwned, IdlePass
<1>2. SavedBefore
    BY DEF Init, SavedBefore
<1> QED BY <1>1, <1>2, InitType DEF Inv

-----------------------------------------------------------------------------
(* The theorems.                                                           *)

\* A PIGDeployment created again does not get the status of the one before it,
\* however late the pass for that one comes to write it.
THEOREM StatusIsOwn == Spec => []StatusOwn
<1>1. Inv => StatusOwn
    BY DEF Inv, Versioned, StatusOwn
<1> QED BY <1>1, InitInv, NextInv, PTL DEF Spec

\* The supervisor becomes an owner of another party's object only if that was
\* created after the pass had read and before it applied.
THEOREM NothingTaken == Spec => NotTaken
<1> DEFINE Kept == (object # None /\ object.foreign /\ object' # None
                      /\ pass.uid \in object'.owners \ object.owners)
                   => object.born # pass.saw
<1>1. Inv => ((object # None /\ object.foreign /\ object' # None
                 /\ pass.uid \in object'.owners \ object.owners) => object.born # pass.saw)
    BY DEF Inv, ReadOwned
<1>2. Inv => [Kept]_vars
    BY <1>1
<1> QED BY <1>2, InitInv, NextInv, PTL DEF Spec, NotTaken

\* The handoff takes no label, annotation or other owner from the Ingress, and
\* takes it from no other Helm release, however old the documents are.
THEOREM HandoffIsLossless == Spec => HandoffLosesNothing
<1> DEFINE Kept == Handoff => /\ ingress'.keys = ingress.keys
                              /\ ingress.owners \cap {Other} = {}
                              /\ ingress.helm # OtherHelm
<1>1. ASSUME Inv, Handoff PROVE Kept
    <2>1. /\ ingress # None /\ savedIngress # None /\ savedPig # 0 /\ savedPig \in 0 .. MaxUID
          /\ ingress \in Ingresses /\ savedIngress.owners = {savedPig}
          /\ savedIngress.helm \in {None, Helm}
          /\ ingress.uid = savedIngress.uid /\ ingress.version = savedIngress.version
        BY <1>1 DEF Inv, TypeOK, Handoff, Prepared, TestsHold
    <2>2. savedIngress = ingress
        BY <1>1, <2>1 DEF Inv, SavedBefore
    <2>3. savedPig # Other
        BY <2>1, OwnershipAssumption DEF UIDs
    <2>4. ingress'.keys = ingress.keys
        BY <1>1, <2>1, <2>2 DEF Handoff, Ingresses
    <2> QED BY <2>1, <2>2, <2>3, <2>4, OwnershipAssumption
<1>2. Inv => [Kept]_vars
    BY <1>1
<1> QED BY <1>2, InitInv, NextInv, PTL DEF Spec, HandoffLosesNothing
=============================================================================
