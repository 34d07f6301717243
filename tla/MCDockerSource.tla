-------------------------- MODULE MCDockerSource --------------------------
(* Model values for DockerSource: the runs' bounds are in the .cfg files.   *)
EXTENDS DockerSource, TLC

Interchangeable == Permutations(Containers)
=============================================================================
