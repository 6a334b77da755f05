------------------------------- MODULE MCInstall -------------------------------
(* Instances of ClusterInstall for TLC. *)
EXTENDS ClusterInstall, TLC

CONSTANTS s1, s2

\* Two bundles share a package manager, one names its provider twice, one is for
\* another provider, one has a namespace of its own.
FourBundles ==
  <<[pm |-> "m", apps |-> <<"x">>, providers |-> << >>, home |-> TRUE],
    [pm |-> "m", apps |-> <<"y">>, providers |-> <<"aws", "aws">>, home |-> TRUE],
    [pm |-> "n", apps |-> <<"z">>, providers |-> <<"gke">>, home |-> TRUE],
    [pm |-> "o", apps |-> <<"x">>, providers |-> <<"gke", "aws">>, home |-> FALSE]>>

Symmetry == Permutations(Slots)
=============================================================================
