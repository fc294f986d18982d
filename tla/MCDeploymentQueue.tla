-------------------------- MODULE MCDeploymentQueue --------------------------
(* Symmetry of TLC's runs of DeploymentQueue. *)
EXTENDS DeploymentQueue, TLC

WorkerSymmetry == Permutations(Workers)
=============================================================================
