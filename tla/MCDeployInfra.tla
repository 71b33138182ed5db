--------------------------- MODULE MCDeployInfra ---------------------------
(***************************************************************************)
(* Model-checking instances of DeployInfra.                                *)
(***************************************************************************)
EXTENDS DeployInfra

\* The parts that the patterns of detect-changes know for what they are.
KnownParts == {"clusterRole", "giteaSetup", "shared"}
=============================================================================
