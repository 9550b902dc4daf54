--------------------------- MODULE MCCacheLoader ---------------------------
(* A small instance of CacheLoader for TLC.                                *)
EXTENDS CacheLoader, TLC

CONSTANTS k1, k2, c1, c2

MCKeys == {k1, k2}
MCCallers == {c1, c2}
MCMaxVersion == k1 :> 1 @@ k2 :> 0

=============================================================================
