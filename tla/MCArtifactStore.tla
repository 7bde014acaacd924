-------------------------- MODULE MCArtifactStore --------------------------
(* Instances of ArtifactStore for TLC. *)
EXTENDS ArtifactStore

Symmetry == Permutations(Processes) \cup Permutations(Contents)
=============================================================================
