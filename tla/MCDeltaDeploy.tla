--------------------------- MODULE MCDeltaDeploy ---------------------------
(***************************************************************************)
(* Instances of DeltaDeploy for TLC.                                       *)
(***************************************************************************)
EXTENDS DeltaDeploy, TLC

\* All names differ.
DistinctNames == [p \in Path |-> p]

\* All names differ in case only.
OneName == [p \in Path |-> "name"]

ContentSymmetry == Permutations(Content)
=============================================================================
