--------------------------- MODULE MCConfigRedeploy ---------------------------
(* Configuration redeploys on small instances.  See the .cfg files.          *)
EXTENDS ConfigRedeploy
=============================================================================
