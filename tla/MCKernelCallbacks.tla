------------------------- MODULE MCKernelCallbacks -------------------------
(* Small instances of KernelCallbacks for TLC.                              *)
EXTENDS KernelCallbacks, TLC

CONSTANTS a, b, none
============================================================================
