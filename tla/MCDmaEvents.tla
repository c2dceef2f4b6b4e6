---------------------------- MODULE MCDmaEvents ----------------------------
(* DmaEvents for TLC: the callback of the GPU (channel 0 here) starts its   *)
(* next fragment, or the clearing of an ordering table (channel 2).         *)
EXTENDS DmaEvents

CONSTANTS fn1, fn2, none

GpuStarts == {<<0, 0>>, <<0, 2>>}
=============================================================================
