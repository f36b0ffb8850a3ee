----------------------------- MODULE MCWindows -----------------------------
(* A small instance of Windows. *)
EXTENDS Windows
MCListSizes == {0, 2}
MCNodeCounts == {1, 2}
=============================================================================
