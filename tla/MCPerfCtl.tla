----------------------------- MODULE MCPerfCtl -----------------------------
(* The perf thread and its client; the values are in the configurations.   *)
EXTENDS PerfCtl
=============================================================================
