-------------------------- MODULE MCMemoryCardFiles --------------------------
(* Cards of eight blocks, the probe at blocks four and two.  *)
EXTENDS MemoryCardFiles, TLC

MCProbes == <<4, 2>>
Names == Permutations(Name)
=============================================================================
