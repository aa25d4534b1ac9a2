-------------------------- MODULE MCArtifactStore --------------------------
(* ArtifactStore on small instances: threads of the server, one process.   *)
EXTENDS ArtifactStore, TLC

CONSTANT server

OneProcess == [r \in Requests |-> server]

RequestSymmetry == Permutations(Requests)
=============================================================================
