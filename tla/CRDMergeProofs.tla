--------------------------- MODULE CRDMergeProofs ---------------------------
(***************************************************************************)
(* Proofs about CRDMerge.  First the merge itself, as lemmas on CRDs; then *)
(* the protocol: a patch that still carries the CRD's resourceVersion was  *)
(* merged from the CRD it replaces, so it only adds to it, and what a pass *)
(* has found or made to fit its release goes on fitting.  Last, that no    *)
(* patch sends again what is there, and that the order in which two        *)
(* namespaces merge does not matter.                                       *)
(***************************************************************************)
EXTENDS CRDMerge, TLAPS

RequestsFit ==
    \A q \in requests :
        /\ q.version <= crd.version
        /\ q.version = crd.version => AdditiveCRD(crd.spec, q.spec)
        /\ q.waited => /\ pass[q.ns] = "sent"
                       /\ \/ published[target[q.ns]] = NoCRD
                          \/ AdditiveCRD(published[target[q.ns]], q.spec)
                       /\ \A o \in requests : (o.waited /\ o.ns = q.ns) => o = q
PassFits == \A n \in Namespaces : pass[n] = "image" => Fits(target[n])
IInv == TypeOK /\ ImagesFit /\ BlockedRightly /\ RequestsFit /\ PassFits

-----------------------------------------------------------------------------
(* The merge.                                                              *)
LEMMA NoCRDIsNone == ~IsCRD(NoCRD)
  BY DEF IsCRD, NoCRD

LEMMA AdditiveReflexive == ASSUME NEW c PROVE AdditiveCRD(c, c)
  BY DEF AdditiveCRD, SchemaAdditive

LEMMA AdditiveTransitive ==
    ASSUME NEW a, NEW b, NEW c, AdditiveCRD(a, b), AdditiveCRD(b, c)
    PROVE  AdditiveCRD(a, c)
  BY DEF AdditiveCRD, SchemaAdditive

LEMMA AddedIsSchema ==
    ASSUME NEW s, NEW t, IsSchema(s), IsSchema(t)
    PROVE  IsSchema(AddedProperties(s, t))
  <1>1. \A p \in DOMAIN s : s[p] \in Attrs
    BY DEF IsSchema
  <1>2. \A p \in DOMAIN t : t[p] \in Attrs
    BY DEF IsSchema
  <1> QED
    BY <1>1, <1>2 DEF IsSchema, AddedProperties

LEMMA WithPropertiesIs ==
    ASSUME NEW c, NEW d, IsCRD(c), IsCRD(d)
    PROVE  LET w == WithProperties(c, d) IN
           /\ w \in [conversion : {c.conversion}, scope : {c.scope}, versions : {w.versions}]
           /\ DOMAIN w.versions = DOMAIN c.versions
           /\ \A i \in DOMAIN c.versions :
                 /\ w.versions[i] \in [attrs : {c.versions[i].attrs},
                                       schema : {w.versions[i].schema}]
                 /\ w.versions[i].schema =
                       IF i \in DOMAIN d.versions
                       THEN AddedProperties(c.versions[i].schema, d.versions[i].schema)
                       ELSE c.versions[i].schema
           /\ w.versions \in [DOMAIN c.versions -> {w.versions[i] : i \in DOMAIN c.versions}]
  BY DEF WithProperties, IsCRD

LEMMA WithPropertiesIsCRD ==
    ASSUME NEW c, NEW d, IsCRD(c), IsCRD(d)
    PROVE  IsCRD(WithProperties(c, d))
  <1> DEFINE w == WithProperties(c, d)
  <1>1. /\ w \in [conversion : {c.conversion}, scope : {c.scope}, versions : {w.versions}]
        /\ DOMAIN w.versions = DOMAIN c.versions
        /\ w.versions \in [DOMAIN c.versions -> {w.versions[i] : i \in DOMAIN c.versions}]
    BY WithPropertiesIs
  <1>2. ASSUME NEW i \in DOMAIN w.versions
        PROVE  /\ w.versions[i] \in [attrs : Attrs, schema : {w.versions[i].schema}]
               /\ IsSchema(w.versions[i].schema)
    <2>1. c.versions[i].attrs \in Attrs /\ IsSchema(c.versions[i].schema)
      BY <1>1 DEF IsCRD
    <2>2. i \in DOMAIN d.versions => IsSchema(d.versions[i].schema)
      BY DEF IsCRD
    <2>3. /\ w.versions[i] \in [attrs : {c.versions[i].attrs}, schema : {w.versions[i].schema}]
          /\ w.versions[i].schema =
                IF i \in DOMAIN d.versions
                THEN AddedProperties(c.versions[i].schema, d.versions[i].schema)
                ELSE c.versions[i].schema
      BY <1>1, WithPropertiesIs
    <2> HIDE DEF w
    <2> QED
      BY <2>1, <2>2, <2>3, AddedIsSchema
  <1> HIDE DEF w
  <1>3. IsCRD(w)
    <2>1. PICK k \in 0 .. MaxVersions : DOMAIN c.versions = 1 .. k
      BY DEF IsCRD
    <2>2. w.versions \in [1 .. k -> {w.versions[i] : i \in 1 .. k}]
      BY <1>1, <2>1
    <2>3. /\ c.conversion \in {"", "None", "Webhook"}
          /\ c.scope \in {"Namespaced", "Cluster"}
      BY DEF IsCRD
    <2> QED
      BY <1>1, <1>2, <2>2, <2>3 DEF IsCRD
  <1> QED
    BY <1>3 DEF w

\* What MergeCRD returns is a CRD that adds to both of its arguments.
LEMMA MergeAddsToBoth ==
    ASSUME NEW c, NEW d, IsCRD(c), IsCRD(d), MergeCRD(c, d) # NoCRD
    PROVE  /\ IsCRD(MergeCRD(c, d))
           /\ AdditiveCRD(c, MergeCRD(c, d))
           /\ AdditiveCRD(d, MergeCRD(c, d))
  BY WithPropertiesIsCRD DEF MergeCRD

\* MergeCRD refuses nothing that differs only in optional properties.
LEMMA CompatibleMerges ==
    ASSUME NEW c, NEW d, IsCRD(c), IsCRD(d), Compatible(c, d)
    PROVE  MergeCRD(c, d) # NoCRD
  <1> DEFINE w == WithProperties(c, d)
  <1>1. /\ w.conversion = c.conversion /\ w.scope = c.scope
        /\ DOMAIN w.versions = DOMAIN c.versions
        /\ \A i \in DOMAIN c.versions :
              /\ w.versions[i].attrs = c.versions[i].attrs
              /\ w.versions[i].schema =
                    IF i \in DOMAIN d.versions
                    THEN AddedProperties(c.versions[i].schema, d.versions[i].schema)
                    ELSE c.versions[i].schema
    BY WithPropertiesIs
  <1>2. d # NoCRD /\ IsCRD(w)
    BY NoCRDIsNone, WithPropertiesIsCRD
  <1> HIDE DEF w
  <1>3. AdditiveCRD(c, w)
    BY <1>1 DEF AdditiveCRD, SchemaAdditive, AddedProperties, Defaulted
  <1>4. Defaulted(d) = Defaulted(w)
    <2>1. /\ w.scope = d.scope
          /\ w.conversion = d.conversion \/ {w.conversion, d.conversion} \subseteq {"", "None"}
      BY <1>1, <1>2 DEF Compatible
    <2> QED
      BY <2>1 DEF Defaulted
  <1>5. ASSUME NEW i \in DOMAIN d.versions
        PROVE  /\ d.versions[i].attrs = w.versions[i].attrs
               /\ SchemaAdditive(d.versions[i].schema, w.versions[i].schema)
    <2> DEFINE mine == c.versions[i].schema
               theirs == d.versions[i].schema
    <2>1. /\ i \in DOMAIN c.versions
          /\ c.versions[i].attrs = d.versions[i].attrs
          /\ \A p \in DOMAIN mine \cap DOMAIN theirs : mine[p] = theirs[p]
      BY <1>2 DEF Compatible
    <2>2. /\ w.versions[i].attrs = c.versions[i].attrs
          /\ w.versions[i].schema = AddedProperties(mine, theirs)
      BY <1>1, <2>1
    <2> HIDE DEF mine, theirs
    <2>3. SchemaAdditive(theirs, AddedProperties(mine, theirs))
      BY <2>1 DEF SchemaAdditive, AddedProperties
    <2> QED
      BY <2>1, <2>2, <2>3 DEF theirs
  <1>6. AdditiveCRD(d, w)
    BY <1>1, <1>2, <1>4, <1>5 DEF AdditiveCRD, Compatible
  <1> QED
    BY <1>2, <1>3, <1>6, NoCRDIsNone DEF MergeCRD, w

\* A CRD that was added to has not become compatible with more.
LEMMA CompatibleBefore ==
    ASSUME NEW c, NEW e, NEW t, IsCRD(c), IsCRD(e), t = NoCRD \/ IsCRD(t),
           AdditiveCRD(c, e), Compatible(e, t)
    PROVE  Compatible(c, t)
  <1> SUFFICES ASSUME t # NoCRD PROVE Compatible(c, t)
    BY DEF Compatible
  <1>1. /\ Supported(t) /\ e.scope = t.scope
        /\ e.conversion = t.conversion \/ {e.conversion, t.conversion} \subseteq {"", "None"}
        /\ DOMAIN e.versions = DOMAIN t.versions
        /\ \A i \in DOMAIN e.versions :
              /\ e.versions[i].attrs = t.versions[i].attrs
              /\ \A p \in DOMAIN e.versions[i].schema \cap DOMAIN t.versions[i].schema :
                    e.versions[i].schema[p] = t.versions[i].schema[p]
    BY DEF Compatible
  <1>2. c.scope = t.scope
    BY <1>1 DEF AdditiveCRD, Defaulted
  <1>3. c.conversion = t.conversion \/ {c.conversion, t.conversion} \subseteq {"", "None"}
    <2>1. e.conversion \in {"", "None"} /\ t.conversion \in {"", "None"}
      BY <1>1 DEF Supported
    <2>2. c.conversion \in {"", "None"}
      BY <2>1 DEF AdditiveCRD, Defaulted
    <2> QED
      BY <2>1, <2>2
  <1>4. /\ DOMAIN c.versions = DOMAIN t.versions
        /\ \A i \in DOMAIN c.versions :
              /\ c.versions[i].attrs = t.versions[i].attrs
              /\ \A p \in DOMAIN c.versions[i].schema \cap DOMAIN t.versions[i].schema :
                    c.versions[i].schema[p] = t.versions[i].schema[p]
    BY <1>1 DEF AdditiveCRD, SchemaAdditive
  <1> QED
    BY <1>1, <1>2, <1>3, <1>4 DEF Compatible

-----------------------------------------------------------------------------
(* The protocol.                                                           *)
LEMMA PublishedTyped ==
    ASSUME TypeOK, NEW r \in Releases
    PROVE  published[r] = NoCRD \/ IsCRD(published[r])
  BY CRDAssumption DEF TypeOK

\* What fits the CRD, and what conflicts with it, does so when more is added.
LEMMA AdditionKeeps ==
    ASSUME IInv, TypeOK', AdditiveCRD(crd.spec, crd'.spec),
           UNCHANGED <<published, target, image, blocked>>
    PROVE  /\ ImagesFit' /\ BlockedRightly'
           /\ \A n \in Namespaces : Fits(target[n]) => Fits(target[n])'
  <1>1. ASSUME NEW r, Fits(r) PROVE Fits(r)'
    BY <1>1, AdditiveTransitive DEF Fits
  <1>2. ImagesFit'
    BY <1>1 DEF IInv, ImagesFit
  <1>3. BlockedRightly'
    <2> SUFFICES ASSUME NEW n \in blocked, Compatible(crd'.spec, published[target[n]])
                 PROVE  FALSE
      BY DEF BlockedRightly
    <2>1. published[target[n]] = NoCRD \/ IsCRD(published[target[n]])
      BY PublishedTyped DEF IInv, TypeOK
    <2>2. IsCRD(crd.spec) /\ IsCRD(crd'.spec)
      BY DEF IInv, TypeOK
    <2> QED
      BY <2>1, <2>2, CompatibleBefore DEF IInv, BlockedRightly
  <1> QED
    BY <1>1, <1>2, <1>3

LEMMA InitIInv == Init => IInv
  <1> SUFFICES ASSUME Init PROVE IInv
    OBVIOUS
  <1>1. TypeOK
    BY CRDAssumption DEF Init, TypeOK
  <1>2. Fits(FirstRelease)
    BY CRDAssumption, AdditiveReflexive DEF Init, Fits
  <1> QED
    BY <1>1, <1>2 DEF Init, IInv, ImagesFit, BlockedRightly, RequestsFit, PassFits

LEMMA ChooseKeeps == ASSUME IInv, NEW n \in Namespaces, Choose(n) PROVE IInv'
  <1>1. PICK r \in Releases : target' = [target EXCEPT ![n] = r]
    BY DEF Choose
  <1>2. TypeOK'
    BY <1>1 DEF Choose, IInv, TypeOK
  <1>3. \A m \in Namespaces \ {n} : target'[m] = target[m]
    BY <1>1 DEF IInv, TypeOK
  <1>4. ImagesFit'
    BY DEF Choose, IInv, ImagesFit, Fits
  <1>5. BlockedRightly'
    BY <1>3 DEF Choose, IInv, TypeOK, BlockedRightly
  <1>6. RequestsFit'
    BY <1>3 DEF Choose, IInv, TypeOK, RequestsFit
  <1>7. PassFits'
    BY <1>3 DEF Choose, IInv, PassFits, Fits
  <1> QED
    BY <1>2, <1>4, <1>5, <1>6, <1>7 DEF IInv

LEMMA RefuseKeeps == ASSUME IInv, NEW n \in Namespaces, RefuseCRD(n) PROVE IInv'
  <1>1. TypeOK'
    BY DEF RefuseCRD, IInv, TypeOK
  <1>2. ~Compatible(crd.spec, published[target[n]])
    <2>1. published[target[n]] # NoCRD
      BY DEF RefuseCRD, Carries
    <2>2. IsCRD(published[target[n]]) /\ IsCRD(crd.spec)
      BY <2>1, PublishedTyped DEF IInv, TypeOK
    <2> QED
      BY <2>1, <2>2, CompatibleMerges DEF RefuseCRD, Merged, Compatible
  <1>3. BlockedRightly'
    BY <1>2 DEF RefuseCRD, IInv, BlockedRightly
  <1> QED
    BY <1>1, <1>3 DEF RefuseCRD, IInv, ImagesFit, RequestsFit, PassFits, Fits

LEMMA KeepKeeps == ASSUME IInv, NEW n \in Namespaces, KeepCRD(n) PROVE IInv'
  <1>1. TypeOK'
    BY DEF KeepCRD, IInv, TypeOK
  <1>2. Fits(target[n])
    <2> SUFFICES ASSUME published[target[n]] # NoCRD PROVE Fits(target[n])
      BY DEF Fits
    <2>1. IsCRD(published[target[n]]) /\ IsCRD(crd.spec)
      BY PublishedTyped DEF IInv, TypeOK
    <2>2. MergeCRD(crd.spec, published[target[n]]) = crd.spec
      BY DEF KeepCRD, Carries, Merged
    <2> QED
      BY <2>1, <2>2, MergeAddsToBoth, NoCRDIsNone DEF Fits
  <1>3. pass[n] = "idle" /\ \A m \in Namespaces \ {n} : pass'[m] = pass[m]
    BY DEF KeepCRD, SelfUpdates, IInv, TypeOK
  <1>4. RequestsFit'
    BY <1>3 DEF KeepCRD, IInv, TypeOK, RequestsFit
  <1>5. PassFits'
    BY <1>2, <1>3 DEF KeepCRD, IInv, PassFits, Fits
  <1> QED
    BY <1>1, <1>4, <1>5 DEF KeepCRD, IInv, ImagesFit, BlockedRightly, Fits

LEMMA SendKeeps == ASSUME IInv, NEW n \in Namespaces, SendCRD(n) PROVE IInv'
  <1> DEFINE q == [ns |-> n, spec |-> Merged(n), version |-> crd.version, waited |-> TRUE]
  <1>1. /\ IsCRD(Merged(n)) /\ AdditiveCRD(crd.spec, Merged(n))
        /\ AdditiveCRD(published[target[n]], Merged(n))
    <2>1. IsCRD(published[target[n]]) /\ IsCRD(crd.spec)
      BY PublishedTyped DEF SendCRD, Carries, IInv, TypeOK
    <2> QED
      BY <2>1, MergeAddsToBoth DEF SendCRD, Merged
  <1>2. /\ q.ns = n /\ q.spec = Merged(n) /\ q.version = crd.version /\ q.waited = TRUE
        /\ requests' = requests \cup {q}
    BY DEF SendCRD
  <1>3. q \in [ns : Namespaces, spec : {q.spec}, version : Nat, waited : BOOLEAN]
    BY DEF IInv, TypeOK
  <1> HIDE DEF q
  <1>4. TypeOK'
    BY <1>1, <1>2, <1>3 DEF SendCRD, IInv, TypeOK
  <1>5. /\ pass[n] = "idle" /\ pass'[n] = "sent"
        /\ \A m \in Namespaces \ {n} : pass'[m] = pass[m]
    BY DEF SendCRD, SelfUpdates, IInv, TypeOK
  <1>6. RequestsFit'
    <2> SUFFICES ASSUME NEW o \in requests \cup {q}
                 PROVE  /\ o.version <= crd.version
                        /\ o.version = crd.version => AdditiveCRD(crd.spec, o.spec)
                        /\ o.waited => /\ pass'[o.ns] = "sent"
                                       /\ \/ published[target[o.ns]] = NoCRD
                                          \/ AdditiveCRD(published[target[o.ns]], o.spec)
                                       /\ \A k \in requests \cup {q} :
                                             (k.waited /\ k.ns = o.ns) => k = o
      BY <1>2 DEF SendCRD, RequestsFit
    <2>1. \A k \in requests : k.waited => k.ns # n
      BY <1>5 DEF IInv, RequestsFit
    <2>2. CASE o = q
      BY <1>1, <1>2, <1>5, <2>1, <2>2 DEF IInv, TypeOK
    <2>3. CASE o \in requests
      BY <1>2, <1>5, <2>1, <2>3 DEF IInv, TypeOK, RequestsFit
    <2> QED
      BY <2>2, <2>3
  <1>7. PassFits'
    BY <1>5 DEF SendCRD, IInv, PassFits, Fits
  <1> QED
    BY <1>4, <1>6, <1>7 DEF SendCRD, IInv, ImagesFit, BlockedRightly, Fits
LEMMA DeliverKeeps == ASSUME IInv, Deliver PROVE IInv' /\ AdditiveCRD(crd.spec, crd'.spec)
  <1>1. PICK q \in requests :
          /\ requests' = requests \ {q}
          /\ crd' = IF VersionHolds(q)
                    THEN [spec |-> q.spec, version |-> crd.version + 1] ELSE crd
          /\ pass' = IF ~q.waited THEN pass
                     ELSE [pass EXCEPT ![q.ns] = IF VersionHolds(q) THEN "image" ELSE "idle"]
    BY DEF Deliver
  <1>2. /\ q.ns \in Namespaces /\ q.waited \in BOOLEAN /\ q.version \in Nat /\ IsCRD(q.spec)
        /\ crd.version \in Nat
    BY DEF IInv, TypeOK
  <1>3. IF VersionHolds(q) THEN crd'.spec = q.spec /\ crd'.version = crd.version + 1
                           ELSE crd' = crd
    BY <1>1
  <1>4. AdditiveCRD(crd.spec, crd'.spec)
    BY <1>3, AdditiveReflexive DEF VersionHolds, IInv, RequestsFit
  <1>5. TypeOK'
    <2>1. crd' \in [spec : {crd'.spec}, version : Nat] /\ IsCRD(crd'.spec)
      BY <1>1, <1>2 DEF IInv, TypeOK
    <2>2. pass' \in [Namespaces -> {"idle", "sent", "image"}]
      BY <1>1, <1>2 DEF IInv, TypeOK
    <2> QED
      BY <1>1, <2>1, <2>2 DEF Deliver, IInv, TypeOK
  <1>6. /\ ImagesFit' /\ BlockedRightly'
        /\ \A n \in Namespaces : Fits(target[n]) => Fits(target[n])'
    BY <1>4, <1>5, AdditionKeeps DEF Deliver
  <1>7. PassFits'
    <2> SUFFICES ASSUME NEW n \in Namespaces, pass'[n] = "image" PROVE Fits(target[n])'
      BY DEF Deliver, PassFits, Fits
    <2>1. CASE pass[n] = "image"
      BY <1>6, <2>1 DEF IInv, PassFits
    <2>2. CASE pass[n] # "image"
      <3>1. q.waited /\ n = q.ns /\ VersionHolds(q)
        BY <1>1, <1>2, <2>2 DEF IInv, TypeOK
      <3>2. \/ published[target[n]] = NoCRD
            \/ AdditiveCRD(published[target[n]], q.spec)
        BY <3>1 DEF IInv, RequestsFit
      <3> QED
        BY <1>3, <3>1, <3>2 DEF Deliver, Fits
    <2> QED
      BY <2>1, <2>2
  <1>8. RequestsFit'
    <2> SUFFICES ASSUME NEW o \in requests, o # q
                 PROVE  /\ o.version <= crd'.version
                        /\ o.version = crd'.version => AdditiveCRD(crd'.spec, o.spec)
                        /\ o.waited => /\ pass'[o.ns] = "sent"
                                       /\ \/ published[target[o.ns]] = NoCRD
                                          \/ AdditiveCRD(published[target[o.ns]], o.spec)
                                       /\ \A k \in requests :
                                             (k.waited /\ k.ns = o.ns) => k = o
      BY <1>1 DEF Deliver, RequestsFit
    <2>1. o.version \in Nat /\ o.ns \in Namespaces /\ o.version <= crd.version
      BY DEF IInv, TypeOK, RequestsFit
    <2>2. o.version <= crd'.version
          /\ (o.version = crd'.version => AdditiveCRD(crd'.spec, o.spec))
      BY <1>2, <1>3, <2>1 DEF IInv, RequestsFit
    <2>3. o.waited => pass[o.ns] = "sent" /\ (q.waited => q.ns # o.ns)
      BY DEF IInv, RequestsFit
    <2>4. o.waited => pass'[o.ns] = "sent"
      BY <1>1, <2>1, <2>3 DEF IInv, TypeOK
    <2> QED
      BY <2>2, <2>4 DEF IInv, RequestsFit
  <1> QED
    BY <1>4, <1>5, <1>6, <1>7, <1>8 DEF IInv

LEMMA PatchImageKeeps == ASSUME IInv, NEW n \in Namespaces, PatchImage(n) PROVE IInv'
  <1>1. TypeOK'
    BY DEF PatchImage, IInv, TypeOK
  <1>2. Fits(target[n])
    BY DEF PatchImage, IInv, PassFits
  <1>3. \A m \in Namespaces : image'[m] = IF m = n THEN target[n] ELSE image[m]
    BY DEF PatchImage, IInv, TypeOK
  <1>4. \A m \in Namespaces : pass'[m] = IF m = n THEN "idle" ELSE pass[m]
    BY DEF PatchImage, IInv, TypeOK
  <1>5. ImagesFit'
    BY <1>2, <1>3 DEF PatchImage, IInv, ImagesFit, Fits
  <1>6. RequestsFit'
    BY <1>4 DEF PatchImage, IInv, TypeOK, RequestsFit
  <1>7. PassFits'
    BY <1>4 DEF PatchImage, IInv, PassFits, Fits
  <1> QED
    BY <1>1, <1>5, <1>6, <1>7 DEF PatchImage, IInv, BlockedRightly

LEMMA CompleteKeeps == ASSUME IInv, NEW n \in Namespaces, Complete(n) PROVE IInv'
  <1>1. TypeOK'
    BY DEF Complete, IInv, TypeOK
  <1> QED
    BY <1>1 DEF Complete, IInv, ImagesFit, BlockedRightly, RequestsFit, PassFits, Fits

LEMMA PassEndsKeeps == ASSUME IInv, NEW n \in Namespaces, PassEnds(n) PROVE IInv'
  <1>1. requests' = {[q EXCEPT !.waited = @ /\ q.ns # n] : q \in requests}
    BY DEF PassEnds
  <1>2. ASSUME NEW o \in requests'
        PROVE  \E q \in requests :
                  /\ o = [q EXCEPT !.waited = q.waited /\ q.ns # n]
                  /\ o.ns = q.ns /\ o.spec = q.spec /\ o.version = q.version
                  /\ o.waited = (q.waited /\ q.ns # n)
                  /\ o \in [ns : Namespaces, spec : {o.spec}, version : Nat, waited : BOOLEAN]
    <2>1. PICK q \in requests : o = [q EXCEPT !.waited = q.waited /\ q.ns # n]
      BY <1>1
    <2>2. q \in [ns : Namespaces, spec : {q.spec}, version : Nat, waited : BOOLEAN]
      BY DEF IInv, TypeOK
    <2>3. /\ o.ns = q.ns /\ o.spec = q.spec /\ o.version = q.version
          /\ o.waited = (q.waited /\ q.ns # n)
      BY <2>1, <2>2
    <2>4. o \in [ns : Namespaces, spec : {o.spec}, version : Nat, waited : BOOLEAN]
      BY <2>1, <2>2, <2>3
    <2> QED
      BY <2>1, <2>3, <2>4
  <1>3. TypeOK'
    <2>1. pass' \in [Namespaces -> {"idle", "sent", "image"}] /\ faults' \in Nat
      BY DEF PassEnds, IInv, TypeOK
    <2>2. \A o \in requests' :
             /\ o \in [ns : Namespaces, spec : {o.spec}, version : Nat, waited : BOOLEAN]
             /\ IsCRD(o.spec)
      BY <1>2 DEF IInv, TypeOK
    <2> QED
      BY <2>1, <2>2 DEF PassEnds, IInv, TypeOK
  <1>4. \A m \in Namespaces : pass'[m] = IF m = n THEN "idle" ELSE pass[m]
    BY DEF PassEnds, IInv, TypeOK
  <1>5. RequestsFit'
    <2> SUFFICES ASSUME NEW o \in requests'
                 PROVE  /\ o.version <= crd.version
                        /\ o.version = crd.version => AdditiveCRD(crd.spec, o.spec)
                        /\ o.waited => /\ pass'[o.ns] = "sent"
                                       /\ \/ published[target[o.ns]] = NoCRD
                                          \/ AdditiveCRD(published[target[o.ns]], o.spec)
                                       /\ \A k \in requests' :
                                             (k.waited /\ k.ns = o.ns) => k = o
      BY DEF PassEnds, RequestsFit
    <2>1. PICK q \in requests :
             /\ o = [q EXCEPT !.waited = q.waited /\ q.ns # n]
             /\ o.ns = q.ns /\ o.spec = q.spec /\ o.version = q.version
             /\ o.waited = (q.waited /\ q.ns # n)
      BY <1>2
    <2>2. q.ns \in Namespaces
      BY DEF IInv, TypeOK
    <2>3. /\ q.version <= crd.version
          /\ q.version = crd.version => AdditiveCRD(crd.spec, q.spec)
          /\ q.waited => /\ pass[q.ns] = "sent"
                         /\ \/ published[target[q.ns]] = NoCRD
                            \/ AdditiveCRD(published[target[q.ns]], q.spec)
      BY DEF IInv, RequestsFit
    <2>4. ASSUME o.waited, NEW k \in requests', k.waited, k.ns = o.ns PROVE k = o
      <3>1. PICK j \in requests :
               /\ k = [j EXCEPT !.waited = j.waited /\ j.ns # n]
               /\ k.ns = j.ns /\ k.waited = (j.waited /\ j.ns # n)
        BY <1>2
      <3>2. j = q
        BY <2>1, <2>4, <3>1 DEF IInv, RequestsFit
      <3> QED
        BY <2>1, <3>1, <3>2
    <2> QED
      BY <1>4, <2>1, <2>2, <2>3, <2>4
  <1>6. PassFits'
    BY <1>4 DEF PassEnds, IInv, PassFits, Fits
  <1> QED
    BY <1>3, <1>5, <1>6 DEF PassEnds, IInv, ImagesFit, BlockedRightly, Fits

LEMMA LoseKeeps == ASSUME IInv, LoseRequest PROVE IInv'
  <1>1. requests' \subseteq requests
    BY DEF LoseRequest
  <1>2. TypeOK'
    BY <1>1 DEF LoseRequest, IInv, TypeOK
  <1>3. RequestsFit'
    BY <1>1 DEF LoseRequest, IInv, RequestsFit
  <1> QED
    BY <1>2, <1>3 DEF LoseRequest, IInv, ImagesFit, BlockedRightly, PassFits, Fits

LEMMA EditKeeps == ASSUME IInv, EditCRD PROVE IInv' /\ AdditiveCRD(crd.spec, crd'.spec)
  <1>1. PICK c \in Bootstraps \cup {crd.spec} :
          AdditiveCRD(crd.spec, c) /\ crd' = [spec |-> c, version |-> crd.version + 1]
    BY DEF EditCRD
  <1>2. IsCRD(c) /\ crd.version \in Nat
    BY CRDAssumption DEF IInv, TypeOK
  <1>3. crd'.spec = c /\ crd'.version = crd.version + 1
    BY <1>1
  <1>4. TypeOK'
    <2>1. crd' \in [spec : {crd'.spec}, version : Nat] /\ IsCRD(crd'.spec)
      BY <1>1, <1>2
    <2> QED
      BY <2>1 DEF EditCRD, IInv, TypeOK
  <1>5. /\ ImagesFit' /\ BlockedRightly'
        /\ \A n \in Namespaces : Fits(target[n]) => Fits(target[n])'
    BY <1>1, <1>3, <1>4, AdditionKeeps DEF EditCRD
  <1>6. RequestsFit'
    BY <1>2, <1>3 DEF EditCRD, IInv, TypeOK, RequestsFit
  <1>7. PassFits'
    BY <1>5 DEF EditCRD, IInv, PassFits, Fits
  <1> QED
    BY <1>1, <1>3, <1>4, <1>5, <1>6, <1>7 DEF IInv

LEMMA NextKeeps == IInv /\ [Next]_vars => IInv' /\ AdditiveCRD(crd.spec, crd'.spec)
  <1> SUFFICES ASSUME IInv, [Next]_vars PROVE IInv' /\ AdditiveCRD(crd.spec, crd'.spec)
    OBVIOUS
  <1>1. ASSUME NEW n \in Namespaces, Choose(n) \/ SelfUpdate(n) \/ PassEnds(n)
        PROVE  IInv' /\ AdditiveCRD(crd.spec, crd'.spec)
    <2>1. crd' = crd
      BY <1>1 DEF Choose, SelfUpdate, PassEnds, RefuseCRD, KeepCRD, SendCRD, PatchImage, Complete
    <2> QED
      BY <1>1, <2>1, AdditiveReflexive, ChooseKeeps, RefuseKeeps, KeepKeeps, SendKeeps,
         PatchImageKeeps, CompleteKeeps, PassEndsKeeps DEF SelfUpdate
  <1>2. CASE LoseRequest
    BY <1>2, LoseKeeps, AdditiveReflexive DEF LoseRequest
  <1>3. CASE UNCHANGED vars
    BY <1>3, AdditiveReflexive
    DEF vars, IInv, TypeOK, ImagesFit, BlockedRightly, RequestsFit, PassFits, Fits
  <1> QED
    BY <1>1, <1>2, <1>3, DeliverKeeps, EditKeeps DEF Next

LEMMA Inductive == Spec => []IInv
  BY InitIInv, NextKeeps, PTL DEF Spec

-----------------------------------------------------------------------------
\* The CRD, the patches and the passes keep their types, for any schemas,
\* releases and namespaces: merging two CRDs gives a CRD.
THEOREM TypeCorrect == Spec => []TypeOK
  BY Inductive, PTL DEF IInv

\* Whatever the supervisors of other namespaces merge and whenever a patch
\* arrives, the installed CRD goes on having what the release of every
\* replaced supervisor image needs (selfUpdate, MergeCRD).
THEOREM ImagesStayFit == Spec => []ImagesFit
  BY Inductive, PTL DEF IInv

\* selfUpdate never takes anything from the installed CRD (MergeCRD and the
\* resourceVersion in the patch).
THEOREM NothingIsRemoved == Spec => NothingRemoved
  <1>1. IInv /\ [Next]_vars => [AdditiveCRD(crd.spec, crd.spec')]_vars
    BY NextKeeps
  <1> QED
    BY <1>1, Inductive, PTL DEF Spec, NothingRemoved

\* CRDUpgradeUnsupported is only ever reported for a release whose CRD does
\* differ from the installed one in more than optional properties.
THEOREM RefusalsAreRight == Spec => []BlockedRightly
  BY Inductive, PTL DEF IInv

-----------------------------------------------------------------------------
(* What the merge makes of several CRDs.                                   *)

\* Two CRDs with the same parts are the same CRD.
LEMMA SameSchema ==
    ASSUME NEW s, NEW t, IsSchema(s), IsSchema(t), DOMAIN s = DOMAIN t,
           \A p \in DOMAIN s : s[p] = t[p]
    PROVE  s = t
  BY DEF IsSchema

LEMMA SameCRD ==
    ASSUME NEW a, NEW b, IsCRD(a), IsCRD(b), a.conversion = b.conversion, a.scope = b.scope,
           DOMAIN a.versions = DOMAIN b.versions,
           \A i \in DOMAIN a.versions : /\ a.versions[i].attrs = b.versions[i].attrs
                                        /\ a.versions[i].schema = b.versions[i].schema
    PROVE  a = b
  <1>1. ASSUME NEW i \in DOMAIN a.versions PROVE a.versions[i] = b.versions[i]
    <2>1. /\ a.versions[i] \in [attrs : Attrs, schema : {a.versions[i].schema}]
          /\ b.versions[i] \in [attrs : Attrs, schema : {b.versions[i].schema}]
      BY DEF IsCRD
    <2> QED
      BY <2>1
  <1>2. a.versions = b.versions
    <2>1. PICK k \in 0 .. MaxVersions : a.versions \in [1 .. k -> {a.versions[i] : i \in 1 .. k}]
      BY DEF IsCRD
    <2>2. PICK l \in 0 .. MaxVersions : b.versions \in [1 .. l -> {b.versions[i] : i \in 1 .. l}]
      BY DEF IsCRD
    <2> QED
      BY <1>1, <2>1, <2>2
  <1>3. /\ a = [conversion |-> a.conversion, scope |-> a.scope, versions |-> a.versions]
        /\ b = [conversion |-> b.conversion, scope |-> b.scope, versions |-> b.versions]
    BY DEF IsCRD
  <1> QED
    BY <1>2, <1>3

\* A CRD that has all of another gains nothing from it.
LEMMA FittedMergesToItself ==
    ASSUME NEW c, NEW d, IsCRD(c), IsCRD(d), AdditiveCRD(d, c)
    PROVE  MergeCRD(c, d) = c
  <1> DEFINE w == WithProperties(c, d)
  <1>1. /\ IsCRD(w) /\ w.conversion = c.conversion /\ w.scope = c.scope
        /\ DOMAIN w.versions = DOMAIN c.versions
        /\ \A i \in DOMAIN c.versions :
              /\ w.versions[i].attrs = c.versions[i].attrs
              /\ w.versions[i].schema =
                    IF i \in DOMAIN d.versions
                    THEN AddedProperties(c.versions[i].schema, d.versions[i].schema)
                    ELSE c.versions[i].schema
    BY WithPropertiesIs, WithPropertiesIsCRD
  <1> HIDE DEF w
  <1>2. ASSUME NEW i \in DOMAIN c.versions
        PROVE  w.versions[i].schema = c.versions[i].schema
    <2> DEFINE mine == c.versions[i].schema
               theirs == d.versions[i].schema
    <2>1. i \in DOMAIN d.versions /\ DOMAIN theirs \subseteq DOMAIN mine
      BY DEF AdditiveCRD, SchemaAdditive
    <2>2. w.versions[i].schema = AddedProperties(mine, theirs) /\ IsSchema(mine)
          /\ IsSchema(w.versions[i].schema)
      BY <1>1, <2>1 DEF IsCRD
    <2> HIDE DEF mine, theirs
    <2>3. DOMAIN AddedProperties(mine, theirs) = DOMAIN mine
          /\ \A p \in DOMAIN mine : AddedProperties(mine, theirs)[p] = mine[p]
      BY <2>1 DEF AddedProperties
    <2>4. AddedProperties(mine, theirs) = mine
      BY <2>2, <2>3, SameSchema
    <2> QED
      BY <2>2, <2>4 DEF mine
  <1>3. w = c
    BY <1>1, <1>2, SameCRD
  <1> QED
    BY <1>3, AdditiveReflexive DEF MergeCRD, w

\* selfUpdate patches the CRD only while that lacks something the release needs:
\* what one supervisor added is not sent again, neither by that one nor by
\* those of the other namespaces (the comparison of merged and installed).
THEOREM NothingIsSentTwice ==
    Spec => [][\A n \in Namespaces : SendCRD(n) => ~Fits(target[n])]_vars
  <1>1. ASSUME IInv, NEW n \in Namespaces, SendCRD(n) PROVE ~Fits(target[n])
    <2>1. /\ IsCRD(published[target[n]]) /\ IsCRD(crd.spec)
          /\ published[target[n]] # NoCRD /\ Merged(n) # crd.spec
      BY <1>1, PublishedTyped DEF SendCRD, Carries, IInv, TypeOK
    <2> QED
      BY <2>1, FittedMergesToItself DEF Fits, Merged
  <1>2. IInv => [\A n \in Namespaces : SendCRD(n) => ~Fits(target[n])]_vars
    BY <1>1
  <1> QED
    BY <1>2, Inductive, PTL

\* The schema of a merge, and of two merges in either order.
LEMMA AddedAt ==
    ASSUME NEW s, NEW t
    PROVE  /\ DOMAIN AddedProperties(s, t) = DOMAIN s \cup DOMAIN t
           /\ \A p \in DOMAIN s : AddedProperties(s, t)[p] = s[p]
           /\ \A p \in DOMAIN t \ DOMAIN s : AddedProperties(s, t)[p] = t[p]
  BY DEF AddedProperties

LEMMA SchemasCommute ==
    ASSUME NEW s, NEW t, NEW u, SchemaAdditive(t, AddedProperties(s, t)),
           SchemaAdditive(u, AddedProperties(AddedProperties(s, t), u))
    PROVE  /\ SchemaAdditive(u, AddedProperties(s, u))
           /\ SchemaAdditive(t, AddedProperties(AddedProperties(s, u), t))
           /\ AddedProperties(AddedProperties(s, u), t) = AddedProperties(AddedProperties(s, t), u)
  <1> DEFINE st == AddedProperties(s, t)
             su == AddedProperties(s, u)
             stu == AddedProperties(st, u)
             sut == AddedProperties(su, t)
  <1>1. /\ DOMAIN st = DOMAIN s \cup DOMAIN t /\ DOMAIN su = DOMAIN s \cup DOMAIN u
        /\ DOMAIN stu = DOMAIN st \cup DOMAIN u /\ DOMAIN sut = DOMAIN su \cup DOMAIN t
    BY AddedAt
  <1>2. /\ \A p \in DOMAIN s : st[p] = s[p] /\ su[p] = s[p]
        /\ \A p \in DOMAIN t \ DOMAIN s : st[p] = t[p]
        /\ \A p \in DOMAIN u \ DOMAIN s : su[p] = u[p]
        /\ \A p \in DOMAIN st : stu[p] = st[p]
        /\ \A p \in DOMAIN u \ DOMAIN st : stu[p] = u[p]
        /\ \A p \in DOMAIN su : sut[p] = su[p]
        /\ \A p \in DOMAIN t \ DOMAIN su : sut[p] = t[p]
    BY AddedAt
  <1>3. stu = [p \in DOMAIN stu |-> stu[p]] /\ sut = [p \in DOMAIN sut |-> sut[p]]
    BY DEF AddedProperties
  <1>4. (\A p \in DOMAIN t : st[p] = t[p]) /\ (\A p \in DOMAIN u : stu[p] = u[p])
    BY DEF SchemaAdditive
  <1> HIDE DEF st, su, stu, sut
  <1>5. \A p \in DOMAIN u : su[p] = u[p]
    BY <1>1, <1>2, <1>4
  <1>6. \A p \in DOMAIN t : sut[p] = t[p]
    BY <1>1, <1>2, <1>4, <1>5
  <1>7. DOMAIN sut = DOMAIN stu /\ \A p \in DOMAIN stu : sut[p] = stu[p]
    BY <1>1, <1>2, <1>4, <1>5, <1>6
  <1>8. sut = stu
    BY <1>3, <1>7
  <1>9. SchemaAdditive(u, su) /\ SchemaAdditive(t, sut)
    BY <1>1, <1>5, <1>6 DEF SchemaAdditive
  <1> QED
    BY <1>8, <1>9 DEF st, su, stu, sut

\* A merge by its parts.
LEMMA MergeParts ==
    ASSUME NEW c, NEW d, NEW m, IsCRD(c), IsCRD(d), m = MergeCRD(c, d), m # NoCRD
    PROVE  /\ IsCRD(m) /\ Defaulted(d) = Defaulted(c)
           /\ DOMAIN d.versions = DOMAIN c.versions
           /\ m.conversion = c.conversion /\ m.scope = c.scope
           /\ DOMAIN m.versions = DOMAIN c.versions
           /\ \A i \in DOMAIN c.versions :
                 /\ d.versions[i].attrs = c.versions[i].attrs
                 /\ m.versions[i].attrs = c.versions[i].attrs
                 /\ m.versions[i].schema =
                       AddedProperties(c.versions[i].schema, d.versions[i].schema)
                 /\ SchemaAdditive(d.versions[i].schema, m.versions[i].schema)
  <1>1. m = WithProperties(c, d) /\ AdditiveCRD(c, m) /\ AdditiveCRD(d, m)
    BY DEF MergeCRD
  <1>2. /\ IsCRD(m) /\ m.conversion = c.conversion /\ m.scope = c.scope
        /\ DOMAIN m.versions = DOMAIN c.versions
        /\ \A i \in DOMAIN c.versions :
              /\ m.versions[i].attrs = c.versions[i].attrs
              /\ m.versions[i].schema =
                    IF i \in DOMAIN d.versions
                    THEN AddedProperties(c.versions[i].schema, d.versions[i].schema)
                    ELSE c.versions[i].schema
    BY <1>1, WithPropertiesIs, WithPropertiesIsCRD
  <1> QED
    BY <1>1, <1>2 DEF AdditiveCRD

\* And what is one: MergeCRD refuses nothing that agrees.
LEMMA PartsMerge ==
    ASSUME NEW c, NEW d, IsCRD(c), IsCRD(d), Defaulted(d) = Defaulted(c),
           DOMAIN d.versions = DOMAIN c.versions,
           \A i \in DOMAIN c.versions :
              /\ d.versions[i].attrs = c.versions[i].attrs
              /\ SchemaAdditive(d.versions[i].schema,
                                AddedProperties(c.versions[i].schema, d.versions[i].schema))
    PROVE  MergeCRD(c, d) # NoCRD
  <1> DEFINE w == WithProperties(c, d)
  <1>1. /\ IsCRD(w) /\ w.conversion = c.conversion /\ w.scope = c.scope
        /\ DOMAIN w.versions = DOMAIN c.versions
        /\ \A i \in DOMAIN c.versions :
              /\ w.versions[i].attrs = c.versions[i].attrs
              /\ w.versions[i].schema =
                    AddedProperties(c.versions[i].schema, d.versions[i].schema)
    BY WithPropertiesIs, WithPropertiesIsCRD
  <1> HIDE DEF w
  <1>2. AdditiveCRD(c, w)
    <2>1. ASSUME NEW i \in DOMAIN c.versions
          PROVE  SchemaAdditive(c.versions[i].schema, w.versions[i].schema)
      <3> DEFINE mine == c.versions[i].schema
                 theirs == d.versions[i].schema
      <3>1. w.versions[i].schema = AddedProperties(mine, theirs)
        BY <1>1, <2>1
      <3> HIDE DEF mine, theirs
      <3>2. SchemaAdditive(mine, AddedProperties(mine, theirs))
        BY DEF SchemaAdditive, AddedProperties
      <3> QED
        BY <3>1, <3>2 DEF mine
    <2> QED
      BY <1>1, <2>1 DEF AdditiveCRD, Defaulted
  <1>3. AdditiveCRD(d, w)
    BY <1>1 DEF AdditiveCRD, Defaulted
  <1> QED
    BY <1>1, <1>2, <1>3, NoCRDIsNone DEF MergeCRD, w

\* Two namespaces' supervisors leave the same CRD whichever of them is first,
\* and neither order is refused if the other is not (MergeCRD and
\* addProperties, which keep what the installed CRD says).
THEOREM MergesCommute ==
    ASSUME NEW c, NEW d, NEW e, IsCRD(c), IsCRD(d), IsCRD(e), MergeCRD(c, d) # NoCRD,
           MergeCRD(MergeCRD(c, d), e) # NoCRD
    PROVE  /\ MergeCRD(c, e) # NoCRD
           /\ MergeCRD(MergeCRD(c, e), d) = MergeCRD(MergeCRD(c, d), e)
  <1> PICK cd : cd = MergeCRD(c, d)
    OBVIOUS
  <1> PICK cde : cde = MergeCRD(cd, e)
    OBVIOUS
  <1>1. /\ IsCRD(cd) /\ Defaulted(d) = Defaulted(c) /\ DOMAIN d.versions = DOMAIN c.versions
        /\ cd.conversion = c.conversion /\ cd.scope = c.scope
        /\ DOMAIN cd.versions = DOMAIN c.versions
        /\ \A i \in DOMAIN c.versions :
              /\ d.versions[i].attrs = c.versions[i].attrs
              /\ cd.versions[i].attrs = c.versions[i].attrs
              /\ cd.versions[i].schema =
                    AddedProperties(c.versions[i].schema, d.versions[i].schema)
              /\ SchemaAdditive(d.versions[i].schema, cd.versions[i].schema)
    BY MergeParts
  <1>2. /\ IsCRD(cde) /\ Defaulted(e) = Defaulted(cd) /\ DOMAIN e.versions = DOMAIN cd.versions
        /\ cde.conversion = cd.conversion /\ cde.scope = cd.scope
        /\ DOMAIN cde.versions = DOMAIN cd.versions
        /\ \A i \in DOMAIN cd.versions :
              /\ e.versions[i].attrs = cd.versions[i].attrs
              /\ cde.versions[i].attrs = cd.versions[i].attrs
              /\ cde.versions[i].schema =
                    AddedProperties(cd.versions[i].schema, e.versions[i].schema)
              /\ SchemaAdditive(e.versions[i].schema, cde.versions[i].schema)
    BY <1>1, MergeParts
  <1>3. Defaulted(cd) = Defaulted(c)
    BY <1>1 DEF Defaulted
  <1>4. ASSUME NEW i \in DOMAIN c.versions
        PROVE  LET s == c.versions[i].schema
                   t == d.versions[i].schema
                   u == e.versions[i].schema
               IN  /\ SchemaAdditive(u, AddedProperties(s, u))
                   /\ SchemaAdditive(t, AddedProperties(AddedProperties(s, u), t))
                   /\ AddedProperties(AddedProperties(s, u), t) = cde.versions[i].schema
    BY <1>1, <1>2, SchemasCommute
  <1>5. MergeCRD(c, e) # NoCRD
    BY <1>1, <1>2, <1>3, <1>4, PartsMerge
  <1> PICK ce : ce = MergeCRD(c, e)
    OBVIOUS
  <1>6. /\ IsCRD(ce) /\ ce.conversion = c.conversion /\ ce.scope = c.scope
        /\ DOMAIN ce.versions = DOMAIN c.versions
        /\ \A i \in DOMAIN c.versions :
              /\ ce.versions[i].attrs = c.versions[i].attrs
              /\ ce.versions[i].schema =
                    AddedProperties(c.versions[i].schema, e.versions[i].schema)
    BY <1>5, MergeParts
  <1>7. Defaulted(ce) = Defaulted(c)
    BY <1>6 DEF Defaulted
  <1>8. MergeCRD(ce, d) # NoCRD
    BY <1>1, <1>4, <1>6, <1>7, PartsMerge
  <1> PICK ced : ced = MergeCRD(ce, d)
    OBVIOUS
  <1>9. /\ IsCRD(ced) /\ ced.conversion = ce.conversion /\ ced.scope = ce.scope
        /\ DOMAIN ced.versions = DOMAIN ce.versions
        /\ \A i \in DOMAIN ce.versions :
              /\ ced.versions[i].attrs = ce.versions[i].attrs
              /\ ced.versions[i].schema =
                    AddedProperties(ce.versions[i].schema, d.versions[i].schema)
    BY <1>6, <1>8, MergeParts
  <1>10. ced = cde
    BY <1>1, <1>2, <1>4, <1>6, <1>9, SameCRD
  <1> QED
    BY <1>5, <1>10

\* A schema that has everything two others have, has everything of their merge.
LEMMA AddedIsLeast ==
    ASSUME NEW s, NEW t, NEW u, SchemaAdditive(s, u), SchemaAdditive(t, u)
    PROVE  /\ SchemaAdditive(t, AddedProperties(s, t))
           /\ SchemaAdditive(AddedProperties(s, t), u)
  <1> DEFINE st == AddedProperties(s, t)
  <1>1. /\ DOMAIN st = DOMAIN s \cup DOMAIN t
        /\ \A p \in DOMAIN s : st[p] = s[p]
        /\ \A p \in DOMAIN t \ DOMAIN s : st[p] = t[p]
    BY AddedAt
  <1> HIDE DEF st
  <1>2. /\ \A p \in DOMAIN s : p \in DOMAIN u /\ u[p] = s[p]
        /\ \A p \in DOMAIN t : p \in DOMAIN u /\ u[p] = t[p]
    BY DEF SchemaAdditive
  <1>3. \A p \in DOMAIN t : p \in DOMAIN st /\ st[p] = t[p]
    BY <1>1, <1>2
  <1>4. \A p \in DOMAIN st : p \in DOMAIN u /\ u[p] = st[p]
    BY <1>1, <1>2
  <1> QED
    BY <1>3, <1>4 DEF SchemaAdditive, st

\* The merge is the least CRD that serves both: when any CRD at all has what the
\* installed one and the release's have, MergeCRD does not refuse, and that CRD
\* has everything the merge has.  So a refusal is final, and selfUpdate leaves in
\* the cluster nothing that neither side asked for.
THEOREM MergeIsLeast ==
    ASSUME NEW c, NEW d, NEW e, IsCRD(c), IsCRD(d), IsCRD(e),
           AdditiveCRD(c, e), AdditiveCRD(d, e)
    PROVE  MergeCRD(c, d) # NoCRD /\ AdditiveCRD(MergeCRD(c, d), e)
  <1>1. /\ Defaulted(d) = Defaulted(c) /\ Defaulted(e) = Defaulted(c)
        /\ DOMAIN d.versions = DOMAIN c.versions /\ DOMAIN e.versions = DOMAIN c.versions
        /\ \A i \in DOMAIN c.versions :
              /\ d.versions[i].attrs = c.versions[i].attrs
              /\ e.versions[i].attrs = c.versions[i].attrs
              /\ SchemaAdditive(c.versions[i].schema, e.versions[i].schema)
              /\ SchemaAdditive(d.versions[i].schema, e.versions[i].schema)
    BY DEF AdditiveCRD
  <1>2. ASSUME NEW i \in DOMAIN c.versions
        PROVE  LET st == AddedProperties(c.versions[i].schema, d.versions[i].schema)
               IN  /\ SchemaAdditive(d.versions[i].schema, st)
                   /\ SchemaAdditive(st, e.versions[i].schema)
    BY <1>1, AddedIsLeast
  <1>3. MergeCRD(c, d) # NoCRD
    BY <1>1, <1>2, PartsMerge
  <1> PICK m : m = MergeCRD(c, d)
    OBVIOUS
  <1>4. /\ m.conversion = c.conversion /\ m.scope = c.scope
        /\ DOMAIN m.versions = DOMAIN c.versions
        /\ \A i \in DOMAIN c.versions :
              /\ m.versions[i].attrs = c.versions[i].attrs
              /\ m.versions[i].schema =
                    AddedProperties(c.versions[i].schema, d.versions[i].schema)
    BY <1>3, MergeParts
  <1>5. Defaulted(m) = Defaulted(c)
    BY <1>4 DEF Defaulted
  <1>6. AdditiveCRD(m, e)
    BY <1>1, <1>2, <1>4, <1>5 DEF AdditiveCRD
  <1> QED
    BY <1>3, <1>6
=============================================================================
