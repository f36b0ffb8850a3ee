---------------------------- MODULE MCRingBuffer ----------------------------
(* A buffer that holds one or two samples.  One chain is short, one fits   *)
(* behind an address of the kernel, one is too long.  The positions begin  *)
(* at 0, and so that they pass the largest int, and where it is 0 again.   *)
EXTENDS RingBuffer
MCChains == {<<>>, <<"kernel", "user">>, <<"user", "user">>}
MCBases == {0, 15, 20, 23, 54}
=============================================================================
