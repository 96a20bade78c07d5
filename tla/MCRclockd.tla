----------------------------- MODULE MCRclockd -----------------------------
(***************************************************************************)
(* Small worlds for Rclockd: `rome' is installed, the two ghosts are not,  *)
(* and only those are ever linked to.                                      *)
(***************************************************************************)
EXTENDS Rclockd

CONSTANTS rome, ghost, ghost2, nozone, h1, h2
=============================================================================
