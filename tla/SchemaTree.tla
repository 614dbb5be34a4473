----------------------------- MODULE SchemaTree -----------------------------
(* The recursive functions of crd.go on schemas as trees.  A node has its  *)
(* attributes and its properties, a function from names to nodes; the      *)
(* absent properties of a node are those of an empty function.             *)
EXTENDS Naturals, Sequences

RECURSIVE schemaAdditive(_, _), addProperties(_, _), Tree(_, _)

schemaAdditive(previous, next) ==
    /\ previous.attrs = next.attrs
    /\ \A name \in DOMAIN previous.properties :
          /\ name \in DOMAIN next.properties
          /\ schemaAdditive(previous.properties[name], next.properties[name])

addPropertiesShallow(current, desired) ==
    LET old == current.properties
        new == desired.properties
    IN  [current EXCEPT !.properties =
            [name \in DOMAIN old \cup DOMAIN new |->
                IF name \in DOMAIN old THEN old[name] ELSE new[name]]]
addProperties(current, desired) ==
    LET old == current.properties
        new == desired.properties
    IN  [current EXCEPT !.properties =
            [name \in DOMAIN old \cup DOMAIN new |->
                IF name \notin DOMAIN old THEN new[name]
                ELSE IF name \in DOMAIN new THEN addProperties(old[name], new[name])
                ELSE old[name]]]

\* The tree at a path of a schema given by its paths.
Tree(schema, path) ==
    LET below == {p \in DOMAIN schema : Len(p) = Len(path) + 1 /\ SubSeq(p, 1, Len(path)) = path}
        Name(p) == p[Len(p)]
    IN  [attrs |-> schema[path],
         properties |-> [name \in {Name(p) : p \in below} |->
                            Tree(schema, Append(path, name))]]
=============================================================================
