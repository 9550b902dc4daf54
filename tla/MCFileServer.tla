--------------------------- MODULE MCFileServer ---------------------------
(* Two goroutines, two keys and a token against each of the four clients.    *)
EXTENDS FileServer, TLC

MCSymmetry == Permutations(Callers)
=============================================================================
