--------------------------- MODULE MCReverseProxy ---------------------------
(* Requests for one path that may miss, hit or be answered by one another.   *)
EXTENDS ReverseProxy
=============================================================================
