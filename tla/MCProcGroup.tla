---------------------------- MODULE MCProcGroup ----------------------------
(* numatop and another process, with up to two threads each.               *)
EXTENDS ProcGroup

MCBucket == [pid \in Pids |-> pid - 1]
=============================================================================
