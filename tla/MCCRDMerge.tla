----------------------------- MODULE MCCRDMerge -----------------------------
(* Instances of CRDMerge, and its schemas compared with those of the code. *)
EXTENDS CRDMerge, SchemaTree

\* Merging and comparing by paths is merging and comparing as crd.go does, by
\* recursion over the tree, for every CRD that is ever installed and every one
\* that is published.
TreesAgree ==
    LET Root(schema) == Tree(schema, <<>>)
        Agree(s, t) ==
            LET merged == AddedProperties(s, t) IN
            /\ addProperties(Root(s), Root(t)) = Root(merged)
            /\ \A x, y \in {s, t, merged} :
                  schemaAdditive(Root(x), Root(y)) = SchemaAdditive(x, y)
    IN  \A r \in Releases : published[r] # NoCRD =>
            \A i \in DOMAIN crd.spec.versions \cap DOMAIN published[r].versions :
                Agree(crd.spec.versions[i].schema, published[r].versions[i].schema)

TwoNamespaces == {"n1", "n2"}
ThreeReleases == 1 .. 3
SomePaths == {<<>>, <<"a">>, <<"a", "b">>, <<"a", "c">>, <<"a", "c", "d">>, <<"e">>}
AB == {<<>>, <<"a">>, <<"a", "b">>}
AC == {<<>>, <<"a">>, <<"a", "c">>}
ACD == {<<>>, <<"a">>, <<"a", "c">>, <<"a", "c", "d">>}
Plain(P) == [p \in P |-> "x"]
Alone(schema) == [i \in {1} |-> [attrs |-> "x", schema |-> schema]]
CRD(conversion, scope, versions) ==
    [conversion |-> conversion, scope |-> scope, versions |-> versions]
Usual(schema) == CRD("", "Namespaced", Alone(schema))

Bootstrap == CRD("None", "Namespaced", Alone(Plain({<<>>, <<"a">>})))
Conflicting == Usual([Plain(AC) EXCEPT ![<<"a", "c">>] = "y"])
Offers ==
    {Usual(Plain(AC)), Usual(Plain(ACD)), Usual(Plain({<<>>, <<"e">>})), NoCRD,
     Usual([Plain(AB) EXCEPT ![<<"a">>] = "y"]),
     CRD("Webhook", "Namespaced", Alone(Plain(AB))),
     CRD("None", "Cluster", Alone(Plain(AB))),
     CRD("", "Namespaced", [i \in 1 .. 2 |-> Alone(Plain(AB))[1]])}
AllPublications ==
    {<<NoCRD, Usual(Plain(AB)), x>> : x \in Offers} \cup {<<NoCRD, Usual(Plain(ACD)), Conflicting>>}
ByHand == {CRD("None", "Namespaced", Alone(Plain({<<>>, <<"a">>, <<"e">>})))}
=============================================================================
