------------------------------ MODULE MCDeploy ------------------------------
(* Deploy with two releases. Releases are interchangeable. *)
EXTENDS Deploy, TLC
Symmetry == Permutations(Tags)
=============================================================================
