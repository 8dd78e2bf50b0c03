------------------------------ MODULE MCReplay ------------------------------
(* testbuilder and its two players on small documents: three names,       *)
(* elements three deep.  What may stand right after a list of attributes:  *)
(* other declarations (MCReplay.cfg), or anything (MCReplayCompact.cfg).   *)
EXTENDS BothPlayers
=============================================================================
