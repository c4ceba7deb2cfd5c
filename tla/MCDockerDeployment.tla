------------------------- MODULE MCDockerDeployment --------------------------
(* Instances of DockerDeployment for TLC. *)
EXTENDS DockerDeployment
=============================================================================
