------------------------------- MODULE MCDeploy -------------------------------
(***************************************************************************)
(* The scripts that bring the system onto its nodes: the build of the      *)
(* cards, the flashing of the nodes' root file system, the boot of a node. *)
(* They share no variable; a behaviour exercises one of them.              *)
(***************************************************************************)
EXTENDS NodeRoot, BuildPipeline, FlashRootfs
VARIABLE part

deployVars == <<buildVars, flashVars, vars, part>>

DeployInit ==
  /\ part \in {"build", "flash", "boot"}
  /\ BuildInit /\ FlashInit /\ Init
  /\ part # "boot" => driver = ""

DeployNext ==
  /\ UNCHANGED part
  /\ \/ part = "build" /\ BuildNext /\ UNCHANGED <<flashVars, vars>>
     \/ part = "flash" /\ FlashNext /\ UNCHANGED <<buildVars, vars>>
     \/ part = "boot" /\ Next /\ UNCHANGED <<buildVars, flashVars>>

DeploySpec == DeployInit /\ [][DeployNext]_deployVars
===============================================================================
