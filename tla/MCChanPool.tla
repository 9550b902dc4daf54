----------------------------- MODULE MCChanPool -----------------------------
(* A pool of one place, so that a Put may find it full.                      *)
EXTENDS ChanPool
=============================================================================
