----------------------------- MODULE Transition -----------------------------
(***************************************************************************)
(* What the release supervisor of a namespace promises about the releases  *)
(* of its analyzer and the schema of its database, without passes, Jobs,   *)
(* Deployments or faults (CONTRACT.md, "Automatic updates" and "Release    *)
(* manifest"): which release may follow which, that a migration is         *)
(* announced before it can run and runs while nothing is served, and that  *)
(* a release is served and installed only on its own schema.               *)
(***************************************************************************)
EXTENDS Naturals

CONSTANTS
    Releases,     \* digests of release manifests
    None,         \* no release
    Version,      \* [Releases -> Nat \ {0}]
    SchemaFrom,   \* [Releases -> SUBSET Nat], revisions a release migrates from
    SchemaTo,     \* [Releases -> Nat], the revision it migrates to and serves
    RollbackTo    \* [Releases -> SUBSET Releases], its declared rollbacks

VARIABLES
    installed,    \* the installed release, or None
    pending,      \* the release being worked for, or None
    crossed,      \* whether a migration may have run since the last installation
    schema,       \* revision of the database's schema
    serving       \* releases whose analyzer Pods run

vars == <<installed, pending, crossed, schema, serving>>

Served(r) == schema = SchemaTo[r]

\* r follows from: a later release, the same one, or a rollback from declares.
MayFollow(from, r) ==
    \/ Version[r] >= Version[from]
    \/ r \in RollbackTo[from] /\ SchemaTo[r] = SchemaTo[from]

Init ==
    \/ /\ pending = None /\ ~crossed
       /\ \/ installed = None /\ schema \in Nat /\ serving = {}
          \/ installed \in Releases /\ Served(installed) /\ serving = {installed}
    \/ /\ installed \in Releases /\ pending \in Releases \ {installed} /\ crossed
       /\ MayFollow(installed, pending)
       /\ Served(installed) \/ Served(pending)
       /\ serving = {}

-----------------------------------------------------------------------------
Begin ==
    /\ pending = None
    /\ pending' \in {r \in Releases : installed # None => MayFollow(installed, r)}
    /\ UNCHANGED <<installed, crossed, schema, serving>>

\* Beyond the boundary only the pending release's own manifest allows a
\* downgrade; before it, that of the installed release.
Replace ==
    /\ pending # None
    /\ pending' \in {r \in Releases : /\ installed # None => MayFollow(installed, r)
                                      /\ crossed => MayFollow(pending, r)}
    /\ UNCHANGED <<installed, crossed, schema, serving>>

\* A transition is given up for the installed release, or for one that is
\* refused at once.  A boundary that has been crossed stays crossed.
Drop ==
    /\ pending # None
    /\ pending' = None
    /\ UNCHANGED <<installed, crossed, schema, serving>>

Cross ==
    /\ pending \notin {None, installed} /\ ~crossed /\ serving = {}
    /\ crossed' = TRUE
    /\ UNCHANGED <<installed, pending, schema, serving>>

Migrate ==
    /\ pending # None /\ crossed /\ serving = {}
    /\ schema \in SchemaFrom[pending] /\ schema' = SchemaTo[pending]
    /\ UNCHANGED <<installed, pending, crossed, serving>>

Install ==
    /\ pending # None /\ Served(pending)
    /\ installed' = pending /\ pending' = None /\ crossed' = FALSE
    /\ UNCHANGED <<schema, serving>>

Stop ==
    /\ serving' = {}
    /\ UNCHANGED <<installed, pending, crossed, schema>>

Serve ==
    /\ serving = {}
    /\ serving' \in {{r} : r \in {q \in Releases : Served(q)}}
    /\ UNCHANGED <<installed, pending, crossed, schema>>

Next ==
    \/ Begin \/ Replace \/ Drop \/ Cross \/ Migrate \/ Install \/ Stop \/ Serve
Spec == Init /\ [][Next]_vars
=============================================================================
