------------------------------ MODULE MCAddOns ------------------------------
(* Instances of AddOns for TLC. *)
EXTENDS AddOns, TLC

CONSTANTS p1, p2, a1, v1, v2, w1, j1, j2, j3

\* Every application names p1.
NeedsP1 == [a \in Applications |-> p1]

\* Every package manager has a namespace of its own.
OwnJobs == [r \in AddOnSet |-> IF r = p1 THEN j1 ELSE IF r = p2 THEN j2 ELSE j3]

\* The workers of the package managers are alike.
Symmetry == Permutations(PMWorkers)
=============================================================================
