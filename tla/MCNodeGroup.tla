---------------------------- MODULE MCNodeGroup ----------------------------
(* Two nodes; the second may go, and its CPU is online later.              *)
EXTENDS NodeGroup, TLC

MCCpuIds == {0, 1}
MCNodeOf == (0 :> 0) @@ (1 :> 1)
MCAtBoot == {0}
MCMinNodes == -1
=============================================================================
