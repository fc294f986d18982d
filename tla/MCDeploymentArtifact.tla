------------------------ MODULE MCDeploymentArtifact ------------------------
EXTENDS DeploymentArtifact
=============================================================================
