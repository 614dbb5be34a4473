---------------------------- MODULE MCSupervisor ----------------------------
(* Instances of Supervisor.  A release is a number; FooVersion orders them. *)
EXTENDS Supervisor

OneSetting == {"s"}
TwoSettings == {"s", "t"}
NoRollback == [r \in 1 .. 3 |-> {}]
Numbered == [r \in 1 .. 3 |-> r]
Three == 1 .. 3
Policy(paused, pin, s) == [paused |-> paused, pin |-> pin, settings |-> s]
Stable == Policy(FALSE, 0, "s")

(* Upgrade: 1 serves schema 1, 2 and its forward repair 3 serve schema 2.  *)
UpSchemaTo == [r \in Three |-> IF r = 1 THEN 1 ELSE 2]
UpSchemaFrom == [r \in Three |-> IF r = 1 THEN {0} ELSE {1}]
UpCatalogs == {{1, 2}, {1, 2, 3}}
UpFirstCatalog == {1, 2}
UpSpecs == {Stable, Policy(FALSE, 3, "s"), Policy(TRUE, 0, "s")}

(* Rotation: settings may change and change back, the policy may pause.    *)
RotSpecs == {Policy(p, 0, s) : p \in BOOLEAN, s \in TwoSettings}
RotCatalogs == {{1, 2}}

(* Rollback: one schema throughout; 2 declares 1 as its rollback, 3 none.  *)
SameSchemaTo == [r \in Three |-> 1]
SameSchemaFrom == [r \in Three |-> {0}]
DeclaredRollback == [r \in Three |-> IF r = 2 THEN {1} ELSE {}]
BackSpecs == {Policy(FALSE, v, "s") : v \in 1 .. 2}
AllCatalogs == {Three}
PinSpecs == {Policy(FALSE, v, "s") : v \in Three}
PinTwo == Policy(FALSE, 2, "s")

(* Republished: a fourth manifest carries version 2 once more.             *)
Four == 1 .. 4
RepubVersion == [r \in Four |-> IF r = 4 THEN 2 ELSE r]
RepubSchemaTo == [r \in Four |-> IF r = 1 THEN 1 ELSE 2]
RepubSchemaFrom == [r \in Four |-> IF r = 1 THEN {0} ELSE {1}]
RepubRollback == [r \in Four |-> {}]
RepubCatalogs == UpCatalogs \cup {{1, 4}, {1, 2, 4}}

(* What a namespace starts from; 2 and 3 also install into an empty one.   *)
Start(installed, interrupted) == [installed |-> installed, interrupted |-> interrupted]
PausableSpecs == {Stable, Policy(TRUE, 0, "s")}
AtOne == {Start(1, None)}
BackStarts == {Start(1, None), Start(3, None)}
UpStarts == {Start(1, None), Start(1, 2)}
AllStarts == {Start(None, None), Start(1, None), Start(1, 2)}
FreshSchemaFrom == [r \in Three |-> IF r = 1 THEN {0} ELSE {0, 1}]
=============================================================================
