----------------------------- MODULE MCNumatop -----------------------------
(* The threads of numatop with a few keys, signals and window resizes; the *)
(* values are in the configurations.                                       *)
EXTENDS Numatop
=============================================================================
