-------------------------- MODULE MCOpenbiosCards --------------------------
(* A file of two blocks of two sectors, out of order on the card, one sector of
   it reallocated.  *)
EXTENDS OpenbiosCards

MCTransfers == {<<1, 2>>, <<0, 3>>, <<0, 0>>}
MCBlockTransfers == {<<0, 3>>, <<3, 1>>}
MCBroken == <<DataSector(0, 0), -1>>
MCChain == <<2, 0>>
=============================================================================
