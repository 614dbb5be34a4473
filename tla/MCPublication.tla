---------------------------- MODULE MCPublication ----------------------------
(* Instances of Publication.  Builds A, B and C come from one source: B has *)
(* another analyzer image than A, hence another worker chart; C differs     *)
(* only in what its manifest says.  D comes from another source.            *)
EXTENDS Publication, TLC

MCCharts == {"supervisor", "worker"}
MCSource == [b \in {"A", "B", "C", "D"} |-> IF b = "D" THEN "s2" ELSE "s1"]
MCBytes == [b \in {"A", "B", "C", "D"} |-> [c \in MCCharts |->
    IF b = "D" THEN "d" ELSE IF b = "B" /\ c = "worker" THEN "b" ELSE "a"]]
OnlyA == [v \in {1} |-> "A"]
AThenD == [v \in {1, 2} |-> IF v = 1 THEN "A" ELSE "D"]
Symmetry == Permutations(Runs)
=============================================================================
