------------------------ MODULE MCDeployTransaction ------------------------
(***************************************************************************)
(* Instances of DeployTransaction for TLC.                                 *)
(***************************************************************************)
EXTENDS DeployTransaction

\* Each revision has one runtime config, built from it.
Labels == [c \in Configs |-> c]
FirstRelease == [app |-> 1, config |-> 1]
=============================================================================
